---------------------------- MODULE Spec2Model ----------------------------
(***************************************************************************)
(* Model of the audio backend's data structures:                           *)
(*   - AudioBuffer        (app/services/audio_buffer.py), a ring buffer    *)
(*   - AudioBufferManager (app/services/audio_buffer.py), the registry     *)
(*   - AVLAudioTree       (app/services/audio_manager.py), tree and cache  *)
(*   - AudioFileManager   (app/services/audio_manager.py), the store with  *)
(*     its storage directory and index file                                *)
(* The specifications of the module: SpecBuf (one ring buffer driven by    *)
(* write/read/clear), SpecWrap (the capacity-1000 buffer of the            *)
(* repository's own test), SpecTree (the tree with its cache), SpecGrow (a *)
(* tree filled by inserts), SpecCache (the tree with a cache of several    *)
(* entries), SpecStore (the manager: uploads, add, get, delete, restart),  *)
(* SpecSearch (the manager searched), SpecLoad (the manager started on any *)
(* index file), SpecCheckpoint (the calls that rewrite the index file),    *)
(* SpecShadow (the tree next to a tree whose cache keeps nothing),         *)
(* SpecRace (callers whose inserts and deletes interleave), SpecReg        *)
(* (threads calling the registry and the buffers through their locks;      *)
(* FairSpecReg adds the scheduler's fairness) and SpecQuery (threads       *)
(* calling one buffer, statement by statement).  Each specification drives *)
(* its own variables and leaves the others as constructed.                 *)
(***************************************************************************)
EXTENDS Integers, Sequences, FiniteSets, TLC

VARIABLES
    buf,      \* the AudioBuffer object of SpecBuf / SpecWrap
    last,     \* the last buffer call: its arguments and what it returned
    fifo,     \* history: the accepted, not yet read samples as given by the callers
    hist,     \* history: the calls made since construction (SpecWrap only)
    tree,     \* the AVLAudioTree object: heap of nodes, root, cache and counters
    tlast,    \* the last tree call: its arguments and what it returned
    manager,  \* the AudioBufferManager object: its dict of buffers and its lock
    objects,  \* the AudioBuffer objects the manager created, each with its lock
    threads,  \* the callers of SpecReg: where each is in its call, and its locals
    disk,     \* the storage directory: the files in it and the index document
    mlast,    \* the last AudioFileManager call: its arguments and its outcome
    nocache,  \* SpecShadow, SpecRace: a tree without cache given the same calls as tree
    tasks     \* SpecRace: the callers of the tree, each somewhere inside its call

bufVars == <<buf, last, fifo, hist>>
treeVars == <<tree, tlast>>
regVars == <<manager, objects, threads>>
storeVars == <<disk, mlast>>
raceVars == <<nocache, tasks>>
vars == <<buf, last, fifo, hist, tree, tlast, manager, objects, threads, disk, mlast,
          nocache, tasks>>

---------------------------------------------------------------------------
(* Bounds of the model *)

\* largest capacity SpecBuf constructs
MaxCap == 3
\* longest sample list handed to one write, and largest count asked of a read
MaxLen == 3
\* writes are offered while total_written is below this
MaxTotal == 4
\* calls recorded by SpecWrap
MaxHist == 3
\* concurrent callers of SpecReg
NumThreads == 2
\* session keys the callers use
NumSessions == 2
\* calls each caller makes
MaxCalls == 2
\* identifiers SpecGrow inserts
MaxInserts == 7
\* identifiers SpecCache uses, and the largest cache_size it constructs
NumCacheIds == 3
CacheCapacity == 2
\* settings.default_buffer_size, scaled down (44100 in app/core/config.py)
DefaultBufferSize == 2

---------------------------------------------------------------------------
(* Helpers *)

Min(a, b) == IF a <= b THEN a ELSE b
Max(a, b) == IF a >= b THEN a ELSE b
Abs(x) == IF x < 0 THEN -x ELSE x

\* settings.default_sample_rate
DefaultSampleRate == 44100

Threads == 1..NumThreads
Sessions == 1..NumSessions

(***************************************************************************)
(* numpy float32.  Sample values are integer-valued floats; float32 keeps  *)
(* 24 significant bits, so an integer of magnitude >= 2^24 is rounded to   *)
(* the nearest multiple of its unit in the last place, ties to even.       *)
(***************************************************************************)
RECURSIVE Ulp32(_, _)
Ulp32(a, p) == IF a < 16777216 * p THEN p ELSE Ulp32(a, 2 * p)

RoundHalfEven(a, p) ==
    LET q == a \div p
        r == a % p
    IN  IF 2 * r < p THEN q * p
        ELSE IF 2 * r > p THEN (q + 1) * p
        ELSE IF q % 2 = 0 THEN q * p ELSE (q + 1) * p

\* np.array(..., dtype=np.float32): the nearest float32
F32(x) ==
    LET a == Abs(x)
        v == RoundHalfEven(a, Ulp32(a, 1))
    IN  IF x < 0 THEN -v ELSE v

\* result *= amplitude on a float32 array: the product, rounded to float32
MulF32(x, amplitude) == F32(x * F32(amplitude))

---------------------------------------------------------------------------
(* AudioBuffer *)

\* AudioBuffer.__init__
NewBuffer(size, sample_rate) ==
    [ size          |-> size,
      sample_rate   |-> sample_rate,
      buffer        |-> [i \in 0..(size - 1) |-> 0],
      read_ptr      |-> 0,
      write_ptr     |-> 0,
      available     |-> 0,
      total_written |-> 0,
      total_read    |-> 0 ]

\* (a wrapped write whose second slice starts again at samples_array[0])
StoreSamples_WrapFromStart(b, samples_array, samples_to_write) ==
    IF b.write_ptr + samples_to_write <= b.size
    THEN [i \in 0..(b.size - 1) |->
            IF i >= b.write_ptr /\ i < b.write_ptr + samples_to_write
            THEN samples_array[i - b.write_ptr + 1]
            ELSE b.buffer[i]]
    ELSE LET first_chunk == b.size - b.write_ptr
         IN  [i \in 0..(b.size - 1) |->
                IF i >= b.write_ptr
                THEN samples_array[i - b.write_ptr + 1]
                ELSE IF i < samples_to_write - first_chunk
                     THEN samples_array[i + 1]
                     ELSE b.buffer[i]]

\* The slice assignments of write: buffer[write_ptr:write_ptr+n] = samples_array,
\* or, when the write wraps, buffer[write_ptr:] = samples_array[:first_chunk] and
\* buffer[:n-first_chunk] = samples_array[first_chunk:].  samples_array is 1-based.
StoreSamples(b, samples_array, samples_to_write) ==
    IF b.write_ptr + samples_to_write <= b.size
    THEN [i \in 0..(b.size - 1) |->
            IF i >= b.write_ptr /\ i < b.write_ptr + samples_to_write
            THEN samples_array[i - b.write_ptr + 1]
            ELSE b.buffer[i]]
    ELSE LET first_chunk == b.size - b.write_ptr
         IN  [i \in 0..(b.size - 1) |->
                IF i >= b.write_ptr
                THEN samples_array[i - b.write_ptr + 1]
                ELSE IF i < samples_to_write - first_chunk
                     THEN samples_array[first_chunk + i + 1]
                     ELSE b.buffer[i]]

\* How many of the samples of a write land before the physical end of the store
\* (the other samples_to_write - TailCount wrap to its start).
TailCount(b, samples_to_write) ==
    IF b.write_ptr + samples_to_write <= b.size
    THEN samples_to_write
    ELSE b.size - b.write_ptr

\* samples_to_write = min(len(samples), self.size - self.available)
SamplesToWrite_IgnoresAvailable(b, samples) == Min(Len(samples), b.size)
SamplesToWrite_NoClamp(b, samples) == Len(samples)
SamplesToWrite(b, samples) == Min(Len(samples), b.size - b.available)

\* self.write_ptr = (self.write_ptr + samples_to_write) % self.size
NextWritePtr_NoWrap(b, n) == b.write_ptr + n
NextWritePtr(b, n) == (b.write_ptr + n) % b.size

\* AudioBuffer.write: the buffer afterwards, the returned count, and how many
\* samples went in before the physical end
write(b, samples) ==
    LET samples_to_write == SamplesToWrite(b, samples)
    IN  IF samples_to_write = 0
        THEN [buf |-> b, ret |-> 0, tail |-> 0]
        ELSE LET samples_array == [i \in 1..samples_to_write |-> F32(samples[i])]
             IN  [ buf |-> [b EXCEPT
                      !.buffer = StoreSamples(b, samples_array, samples_to_write),
                      !.write_ptr = NextWritePtr(b, samples_to_write),
                      !.available = Min(b.available + samples_to_write, b.size),
                      !.total_written = b.total_written + samples_to_write],
                   ret |-> samples_to_write,
                   tail |-> TailCount(b, samples_to_write) ]

\* The slices read copies out: buffer[read_ptr:read_ptr+n], or buffer[read_ptr:]
\* followed by buffer[:n-first_chunk] when the read wraps.  The result is 1-based.
LoadSamples(b, samples_to_read) ==
    IF b.read_ptr + samples_to_read <= b.size
    THEN [i \in 1..samples_to_read |-> b.buffer[b.read_ptr + i - 1]]
    ELSE LET first_chunk == b.size - b.read_ptr
         IN  [i \in 1..samples_to_read |->
                IF i <= first_chunk
                THEN b.buffer[b.read_ptr + i - 1]
                ELSE b.buffer[i - first_chunk - 1]]

\* samples_to_read = min(num_samples, self.available)
SamplesToRead(b, num_samples) == Min(num_samples, b.available)

\* self.read_ptr = (self.read_ptr + samples_to_read) % self.size
NextReadPtr_NoWrap(b, n) == b.read_ptr + n
NextReadPtr(b, n) == (b.read_ptr + n) % b.size

\* AudioBuffer.read: the buffer afterwards, the returned list, and whether the
\* call raised (np.zeros of a negative length raises ValueError; the with-block
\* releases the lock and nothing has been assigned yet).
read(b, num_samples, amplitude) ==
    LET samples_to_read == SamplesToRead(b, num_samples)
    IN  IF samples_to_read = 0
        THEN [buf |-> b, ret |-> <<>>, raised |-> FALSE]
        ELSE IF samples_to_read < 0
        THEN [buf |-> b, ret |-> <<>>, raised |-> TRUE]
        ELSE LET result == LoadSamples(b, samples_to_read)
             IN  [ buf |-> [b EXCEPT
                      !.read_ptr = NextReadPtr(b, samples_to_read),
                      !.available = b.available - samples_to_read,
                      !.total_read = b.total_read + samples_to_read],
                   ret |-> [i \in 1..samples_to_read |-> MulF32(result[i], amplitude)],
                   raised |-> FALSE ]

\* (a clear that resets the pointers and leaves the samples in the array)
clear_NoFill(b) ==
    [b EXCEPT !.read_ptr = 0,
              !.write_ptr = 0,
              !.available = 0]

\* (a clear that forgets to reset write_ptr)
clear_KeepsWritePtr(b) ==
    [b EXCEPT !.buffer = [i \in 0..(b.size - 1) |-> 0],
              !.read_ptr = 0,
              !.available = 0]

\* AudioBuffer.clear
clear(b) ==
    [b EXCEPT !.buffer = [i \in 0..(b.size - 1) |-> 0],
              !.read_ptr = 0,
              !.write_ptr = 0,
              !.available = 0]

---------------------------------------------------------------------------
(* AVLAudioTree: the tree, its cache and its counters.

   AudioFileNode objects live in heap, a sequence indexed by address; 0 is None.
   A node keeps file_id, filename, file_path, file_size, channels, tags,
   access_count, height, left and right; filename also stands for the payload
   fields the code handles exactly as it handles filename (duration,
   sample_rate, bit_depth, format, metadata, processing_history).  The
   wall-clock fields upload_time and last_accessed are not modelled.  The cache is the dict self.cache in insertion order: a
   sequence of [key, ref] entries, ref an address. *)

\* the empty reference
None == 0

\* AudioFileNode(...): a fresh node has height 1 and no children; add_audio_file
\* creates it with access_count = 1
NewNode(file_id, filename, file_size) ==
    [ file_id |-> file_id, filename |-> filename, file_path |-> filename,
      file_size |-> file_size, channels |-> 1, tags |-> <<>>, access_count |-> 1,
      height |-> 1, left |-> None, right |-> None ]

\* AVLAudioTree._height
Height(h, node) == IF node = None THEN 0 ELSE h[node].height

\* AVLAudioTree._balance_factor
BalanceFactor(h, node) == Height(h, h[node].left) - Height(h, h[node].right)

\* (a height that forgets the +1 of the node itself when the node has children)
UpdateHeight_NoPlusOne(h, node) ==
    [h EXCEPT ![node].height =
        Max(1, Max(Height(h, h[node].left), Height(h, h[node].right)))]

\* (an _update_height that leaves the stored height as it is)
UpdateHeight_Stale(h, node) == h

\* AVLAudioTree._update_height
UpdateHeight(h, node) ==
    [h EXCEPT ![node].height =
        Max(Height(h, h[node].left), Height(h, h[node].right)) + 1]

\* AVLAudioTree._rotate_right: the heap afterwards and the new subtree root
RotateRight(h, y) ==
    LET x  == h[y].left
        T2 == h[x].right
        h1 == [h EXCEPT ![x].right = y, ![y].left = T2]
    IN  [h |-> UpdateHeight(UpdateHeight(h1, y), x), r |-> x]

\* AVLAudioTree._rotate_left
RotateLeft(h, x) ==
    LET y  == h[x].right
        T2 == h[y].left
        h1 == [h EXCEPT ![y].left = x, ![x].right = T2]
    IN  [h |-> UpdateHeight(UpdateHeight(h1, x), y), r |-> y]

\* (a _balance whose single-rotation cases test > 0 and < 0, as insertion alone
\* would need, so that a heavier child with balance factor 0 matches no case)
Balance_StrictCases(h0, node) ==
    LET h       == UpdateHeight(h0, node)
        balance == BalanceFactor(h, node)
    IN  IF balance > 1 /\ BalanceFactor(h, h[node].left) > 0
        THEN RotateRight(h, node)
        ELSE IF balance < -1 /\ BalanceFactor(h, h[node].right) < 0
        THEN RotateLeft(h, node)
        ELSE IF balance > 1 /\ BalanceFactor(h, h[node].left) < 0
        THEN LET l == RotateLeft(h, h[node].left)
             IN  RotateRight([l.h EXCEPT ![node].left = l.r], node)
        ELSE IF balance < -1 /\ BalanceFactor(h, h[node].right) > 0
        THEN LET r == RotateRight(h, h[node].right)
             IN  RotateLeft([r.h EXCEPT ![node].right = r.r], node)
        ELSE [h |-> h, r |-> node]

\* (a _balance that only updates the height and never rotates)
Balance_NoRotation(h0, node) == [h |-> UpdateHeight(h0, node), r |-> node]

\* AVLAudioTree._balance
Balance(h0, node) ==
    LET h       == UpdateHeight(h0, node)
        balance == BalanceFactor(h, node)
    IN  IF balance > 1 /\ BalanceFactor(h, h[node].left) >= 0
        THEN RotateRight(h, node)
        ELSE IF balance < -1 /\ BalanceFactor(h, h[node].right) <= 0
        THEN RotateLeft(h, node)
        ELSE IF balance > 1 /\ BalanceFactor(h, h[node].left) < 0
        THEN LET l == RotateLeft(h, h[node].left)
             IN  RotateRight([l.h EXCEPT ![node].left = l.r], node)
        ELSE IF balance < -1 /\ BalanceFactor(h, h[node].right) > 0
        THEN LET r == RotateRight(h, h[node].right)
             IN  RotateLeft([r.h EXCEPT ![node].right = r.r], node)
        ELSE [h |-> h, r |-> node]

\* AVLAudioTree._insert_recursive; audio_file is the address of the new object
RECURSIVE InsertRecursive(_, _, _)
InsertRecursive(h, node, audio_file) ==
    IF node = None
    THEN [h |-> h, r |-> audio_file]
    ELSE IF h[audio_file].file_id < h[node].file_id
    THEN LET sub == InsertRecursive(h, h[node].left, audio_file)
         IN  Balance([sub.h EXCEPT ![node].left = sub.r], node)
    ELSE IF h[audio_file].file_id > h[node].file_id
    THEN LET sub == InsertRecursive(h, h[node].right, audio_file)
         IN  Balance([sub.h EXCEPT ![node].right = sub.r], node)
    ELSE [h |-> [h EXCEPT ![node].access_count = @ + 1], r |-> node]

\* file_id in self.cache
InCache(c, file_id) == \E i \in 1..Len(c) : c[i].key = file_id

\* self.cache[file_id]
CacheGet(c, file_id) == c[CHOOSE i \in 1..Len(c) : c[i].key = file_id].ref

\* self.cache[file_id] = node: a key already present keeps its place in the dict's
\* insertion order, a new key goes last
CacheSet(c, file_id, node) ==
    IF InCache(c, file_id)
    THEN [i \in 1..Len(c) |-> IF c[i].key = file_id THEN [key |-> file_id, ref |-> node]
                                                    ELSE c[i]]
    ELSE Append(c, [key |-> file_id, ref |-> node])

\* if len(self.cache) > self.cache_size: del self.cache[next(iter(self.cache))]
CacheEvict(c, size) == IF Len(c) > size THEN Tail(c) ELSE c

\* del self.cache[file_id]
CacheDel(c, file_id) == SelectSeq(c, LAMBDA e : e.key # file_id)

\* AVLAudioTree._find_recursive: the heap afterwards (the node found has its
\* access_count incremented) and the node found, or None
RECURSIVE FindRecursive(_, _, _)
FindRecursive(h, node, file_id) ==
    IF node = None
    THEN [h |-> h, r |-> None]
    ELSE IF h[node].file_id = file_id
    THEN [h |-> [h EXCEPT ![node].access_count = @ + 1], r |-> node]
    ELSE IF file_id < h[node].file_id
    THEN FindRecursive(h, h[node].left, file_id)
    ELSE FindRecursive(h, h[node].right, file_id)

\* (a successor search that stops at the right child itself)
MinValueNode_NoDescent(h, node) == node

\* AVLAudioTree._min_value_node
RECURSIVE MinValueNode(_, _)
MinValueNode(h, node) ==
    IF h[node].left = None THEN node ELSE MinValueNode(h, h[node].left)

\* AVLAudioTree._delete_recursive
RECURSIVE DeleteRecursive(_, _, _)
DeleteRecursive(h, node, file_id) ==
    IF node = None
    THEN [h |-> h, r |-> None]
    ELSE IF file_id < h[node].file_id
    THEN LET sub == DeleteRecursive(h, h[node].left, file_id)
         IN  Balance([sub.h EXCEPT ![node].left = sub.r], node)
    ELSE IF file_id > h[node].file_id
    THEN LET sub == DeleteRecursive(h, h[node].right, file_id)
         IN  Balance([sub.h EXCEPT ![node].right = sub.r], node)
    ELSE IF h[node].left = None
    THEN [h |-> h, r |-> h[node].right]
    ELSE IF h[node].right = None
    THEN [h |-> h, r |-> h[node].left]
    ELSE LET temp == MinValueNode(h, h[node].right)
             h1   == [h EXCEPT ![node].file_id = h[temp].file_id,
                               ![node].filename = h[temp].filename,
                               ![node].file_path = h[temp].file_path,
                               ![node].file_size = h[temp].file_size,
                               ![node].channels = h[temp].channels,
                               ![node].tags = h[temp].tags,
                               ![node].access_count = h[temp].access_count]
             sub  == DeleteRecursive(h1, h1[node].right, h1[temp].file_id)
         IN  Balance([sub.h EXCEPT ![node].right = sub.r], node)

\* AVLAudioTree.__init__ (cache_size is an attribute of the object; the code sets
\* 1000, the model a small value so that evictions happen)
NewTree(cache_size) ==
    [ heap |-> <<>>, root |-> None, file_count |-> 0, total_size |-> 0,
      cache |-> <<>>, cache_size |-> cache_size ]

\* AVLAudioTree.insert of the AudioFileNode object new_node, which gets the next free
\* address
insert_node(t, new_node) ==
    LET audio_file == Len(t.heap) + 1
        ins == InsertRecursive(Append(t.heap, new_node), t.root, audio_file)
    IN  [t EXCEPT !.heap = ins.h,
                  !.root = ins.r,
                  !.file_count = t.file_count + 1,
                  !.total_size = t.total_size + new_node.file_size,
                  !.cache = CacheEvict(CacheSet(t.cache, new_node.file_id, audio_file),
                                       t.cache_size)]

\* AVLAudioTree.insert of a fresh record
insert(t, file_id, filename, file_size) == insert_node(t, NewNode(file_id, filename, file_size))

\* (a find whose cache hit moves the entry to the end of the cache's order, as a
\* cache evicting by recency of access would)
find_MovesToEnd(t, file_id) ==
    IF InCache(t.cache, file_id)
    THEN LET node == CacheGet(t.cache, file_id)
         IN  [t |-> [t EXCEPT !.heap[node].access_count = @ + 1,
                              !.cache = Append(CacheDel(t.cache, file_id),
                                               [key |-> file_id, ref |-> node])],
              r |-> node]
    ELSE LET f == FindRecursive(t.heap, t.root, file_id)
         IN  IF f.r # None
             THEN [t |-> [t EXCEPT !.heap = f.h,
                                   !.cache = CacheEvict(CacheSet(t.cache, file_id, f.r),
                                                        t.cache_size)],
                   r |-> f.r]
             ELSE [t |-> t, r |-> None]

\* AVLAudioTree.find: the tree afterwards and the node returned (or None)
find(t, file_id) ==
    IF InCache(t.cache, file_id)
    THEN LET node == CacheGet(t.cache, file_id)
         IN  [t |-> [t EXCEPT !.heap[node].access_count = @ + 1], r |-> node]
    ELSE LET f == FindRecursive(t.heap, t.root, file_id)
         IN  IF f.r # None
             THEN [t |-> [t EXCEPT !.heap = f.h,
                                   !.cache = CacheEvict(CacheSet(t.cache, file_id, f.r),
                                                        t.cache_size)],
                   r |-> f.r]
             ELSE [t |-> t, r |-> None]

\* AVLAudioTree.delete: the tree afterwards and the returned flag
delete(t, file_id) ==
    LET c   == IF InCache(t.cache, file_id) THEN CacheDel(t.cache, file_id) ELSE t.cache
        del == DeleteRecursive(t.heap, t.root, file_id)
    IN  IF del.r # None
        THEN [t |-> [t EXCEPT !.cache = c, !.heap = del.h, !.root = del.r,
                              !.file_count = t.file_count - 1],
              r |-> TRUE]
        ELSE [t |-> [t EXCEPT !.cache = c, !.heap = del.h, !.root = del.r],
              r |-> FALSE]

\* AVLAudioTree.get_statistics; average_file_size is the quotient of total_size
\* and total_files (0 when there is no file)
get_statistics(t) ==
    [ total_files |-> t.file_count,
      total_size  |-> t.total_size,
      cache_size  |-> Len(t.cache),
      tree_height |-> Height(t.heap, t.root) ]

\* AVLAudioTree.get_all_files / _inorder_traversal: the nodes in order
RECURSIVE InorderTraversal(_, _)
InorderTraversal(h, node) ==
    IF node = None THEN <<>>
    ELSE InorderTraversal(h, h[node].left) \o <<node>> \o InorderTraversal(h, h[node].right)

\* the identifiers get_all_files lists
InorderIds(t) ==
    LET files == InorderTraversal(t.heap, t.root)
    IN  [i \in 1..Len(files) |-> t.heap[files[i]].file_id]

(***************************************************************************)
(* Object lifetime.  Addresses carry no meaning beyond identity, so after   *)
(* each call the heap is renumbered: the nodes of the tree in pre-order,    *)
(* then the objects only the cache still refers to, in cache order; an      *)
(* object nothing refers to is dropped (Python frees it).  No operation     *)
(* reads the height or the child links of an object that is no longer in    *)
(* the tree, so they are reset in such an object.                           *)
(***************************************************************************)
RECURSIVE Preorder(_, _)
Preorder(h, node) ==
    IF node = None THEN <<>>
    ELSE <<node>> \o Preorder(h, h[node].left) \o Preorder(h, h[node].right)

SeqRange(q) == {q[i] : i \in 1..Len(q)}

IndexOf(q, x) == CHOOSE i \in 1..Len(q) : q[i] = x

Compact(t, ref) ==
    LET pre     == Preorder(t.heap, t.root)
        inTree  == SeqRange(pre)
        first   == [i \in 1..Len(t.cache) |->
                      /\ t.cache[i].ref \notin inTree
                      /\ \A j \in 1..(i - 1) : t.cache[j].ref # t.cache[i].ref]
        detached == SelectSeq([i \in 1..Len(t.cache) |-> [ref |-> t.cache[i].ref, first |-> first[i]]],
                              LAMBDA e : e.first)
        order   == pre \o [i \in 1..Len(detached) |-> detached[i].ref]
        addr(a) == IF a = None THEN None ELSE IndexOf(order, a)
    IN  [ t |-> [t EXCEPT
                   !.heap = [i \in 1..Len(order) |->
                               LET n == t.heap[order[i]]
                               IN  IF i <= Len(pre)
                                   THEN [n EXCEPT !.left = addr(n.left), !.right = addr(n.right)]
                                   ELSE [n EXCEPT !.left = None, !.right = None, !.height = 1]],
                   !.root = addr(t.root),
                   !.cache = [i \in 1..Len(t.cache) |->
                                [key |-> t.cache[i].key, ref |-> addr(t.cache[i].ref)]]],
          ref |-> addr(ref) ]

\* the file_id at the root, 0 for the empty tree
RootId(t) == IF t.root = None THEN 0 ELSE t.heap[t.root].file_id

\* the record of the last tree call before any call was made
NoTreeCall == [op |-> "init", file_id |-> 0, ret |-> FALSE, ref |-> None, root_before |-> 0]

\* the tree as the specifications of the buffers leave it: constructed, never called
InitTreeIdle == tree = NewTree(1) /\ tlast = NoTreeCall

\* a tree whose cache keeps nothing (cache_size 0: whatever insert and find put
\* into the cache is evicted at once), and what its last find returned: whether
\* it found a node, and the node's fields
NoCacheTree == [t |-> NewTree(0), ret |-> FALSE, rec |-> <<>>]

\* the number of callers of SpecRace
NumTasks == 2
Tasks == 1..NumTasks

\* a caller of the tree outside any call.  pc is where the caller is in its
\* call, op and file_id the call, node the object it inserts, result what its
\* recursive call returned, count the value of file_count it read, calls the
\* number of calls it has made.  What it has done so far: inserted, the
\* identifiers whose insert has returned; deleted, the identifiers it has
\* called delete for; overlapped, whether it started a call while another
\* caller was inside one
IdleTask ==
    [ pc |-> "idle", op |-> "none", file_id |-> 0, node |-> None, result |-> None,
      count |-> 0, calls |-> 0, inserted |-> {}, deleted |-> {}, overlapped |-> FALSE ]

\* the shadow tree and the callers as the other specifications leave them
InitRaceIdle == nocache = NoCacheTree /\ tasks = [task \in Tasks |-> IdleTask]

---------------------------------------------------------------------------
(* AudioBufferManager: the registry of buffers, and the locks.

   AudioBuffer objects live in objects, a sequence indexed by address (0 is
   None); each entry holds the buffer's fields in obj and the holder of its
   threading.Lock in lock (Free, or the thread that acquired it).  The manager
   is the dict self.buffers in insertion order, a sequence of [key, ref]
   entries, and the holder of the manager's own lock.  A with-block is an
   acquire step, enabled only while the lock is free, followed by the block's
   body, which ends by releasing the lock. *)

Free == 0

\* leaving a with-block: the lock is released
ReleaseLock_Kept(holder) == holder
ReleaseLock(holder) == Free

\* AudioBufferManager.__init__
NewManager == [buffers |-> <<>>, lock |-> Free]

\* session_id in self.buffers
HasBuffer(buffers, session_id) == \E i \in 1..Len(buffers) : buffers[i].key = session_id

\* AudioBufferManager.get_buffer, inside the lock: self.buffers.get(session_id)
get_buffer(buffers, session_id) ==
    IF HasBuffer(buffers, session_id)
    THEN buffers[CHOOSE i \in 1..Len(buffers) : buffers[i].key = session_id].ref
    ELSE None

\* size or settings.default_buffer_size: None and 0 both give the default
OrDefault(value, default) == IF value = None THEN default ELSE value

\* AudioBufferManager.create_buffer, inside the lock: the dict and the objects
\* afterwards, and the buffer returned
create_buffer_Overwrite(buffers, objs, session_id, size, sample_rate) ==
    LET buffer == NewBuffer(OrDefault(size, DefaultBufferSize),
                            OrDefault(sample_rate, DefaultSampleRate))
        ref    == Len(objs) + 1
    IN  [ buffers |-> IF HasBuffer(buffers, session_id)
                      THEN [i \in 1..Len(buffers) |->
                              IF buffers[i].key = session_id
                              THEN [key |-> session_id, ref |-> ref]
                              ELSE buffers[i]]
                      ELSE Append(buffers, [key |-> session_id, ref |-> ref]),
          objects |-> Append(objs, [obj |-> buffer, lock |-> Free]),
          ret     |-> ref ]
create_buffer(buffers, objs, session_id, size, sample_rate) ==
    IF HasBuffer(buffers, session_id)
    THEN [buffers |-> buffers, objects |-> objs, ret |-> get_buffer(buffers, session_id)]
    ELSE LET buffer_size        == OrDefault(size, DefaultBufferSize)
             buffer_sample_rate == OrDefault(sample_rate, DefaultSampleRate)
             buffer             == NewBuffer(buffer_size, buffer_sample_rate)
             ref                == Len(objs) + 1
         IN  [ buffers |-> Append(buffers, [key |-> session_id, ref |-> ref]),
               objects |-> Append(objs, [obj |-> buffer, lock |-> Free]),
               ret     |-> ref ]

\* AudioBufferManager.delete_buffer, inside the lock: the dict afterwards and the
\* value returned
delete_buffer(buffers, session_id) ==
    IF HasBuffer(buffers, session_id)
    THEN [buffers |-> SelectSeq(buffers, LAMBDA e : e.key # session_id), ret |-> TRUE]
    ELSE [buffers |-> buffers, ret |-> FALSE]

\* AudioBuffer.get_status, inside the lock; utilization and duration_seconds are
\* the quotients available / size and available / sample_rate of fields given
\* here, created_at is wall-clock time
get_status(b) ==
    [ size |-> b.size, available |-> b.available, read_ptr |-> b.read_ptr,
      write_ptr |-> b.write_ptr, total_written |-> b.total_written,
      total_read |-> b.total_read, sample_rate |-> b.sample_rate ]

\* AudioBuffer.get_utilization: available / size, kept as the pair
get_utilization(b) == <<b.available, b.size>>

\* sum(buffer.available for buffer in self.buffers.values())
RECURSIVE TotalSamples(_, _, _)
TotalSamples(buffers, objs, i) ==
    IF i > Len(buffers) THEN 0
    ELSE objs[buffers[i].ref].obj.available + TotalSamples(buffers, objs, i + 1)

\* the terms of sum(buffer.get_utilization() for buffer in self.buffers.values())
Utilizations(buffers, objs) ==
    [i \in 1..Len(buffers) |-> get_utilization(objs[buffers[i].ref].obj)]

\* what get_statistics returns before it was ever called
NoStats ==
    [ total_buffers |-> 0, total_samples_available |-> 0,
      utilizations |-> <<>>, active_sessions |-> <<>> ]

\* the thread of a caller before its first call.  pc is where the thread is in
\* its call; op .. num_samples are the call and its arguments; buffer is the
\* AudioBuffer the caller got from its last create_buffer or get_buffer; i and
\* total_samples are locals of the manager's loops; ret (a buffer or a count),
\* ok, out, raised, statuses and stats are what the last finished call returned.
IdleThread ==
    [ pc |-> "idle", op |-> "none", session_id |-> 0, size |-> None, sample_rate |-> None,
      samples |-> <<>>, num_samples |-> 0, buffer |-> None, i |-> 0, total_samples |-> 0,
      ret |-> None, ok |-> FALSE, out |-> <<>>, raised |-> FALSE,
      statuses |-> <<>>, stats |-> NoStats, calls |-> 0 ]

\* the registry as the other specifications leave it: constructed, never called
InitRegIdle ==
    /\ manager = NewManager
    /\ objects = <<>>
    /\ threads = [t \in Threads |-> IdleThread]

---------------------------------------------------------------------------
(* AudioFileManager: the tree, the storage directory and the index file.

   disk.files maps each file name of the storage directory to the size of the
   file, or to Absent; a path is the storage directory followed by a file
   name, so the name stands for the path.  File names, queries and tags are
   sequences of characters resp. of tag names.  Identifiers 1, 2, .. stand for
   file_id strings in their order, EmptyString for '' and a negative
   identifier for a JSON number in the place of a file_id.

   disk.index is the index document: kind "absent" (no file), "garbage" (a
   file that is not a JSON object) or "object" with the list files.  A value
   of that list is a record with json = "object" (a JSON object; keys are the
   keys it has, and a field whose key is not among them has no meaning) or
   json = "string" (any JSON value that is no object). *)

\* no file of that name
Absent == -1

\* the file_id ''
EmptyString == 0

\* cache_size of the manager's tree: the code sets 1000, more than the records
\* a store of the model ever holds
StoreCacheSize == 4

\* the keys asdict gives a record
NodeKeys ==
    { "file_id", "filename", "file_path", "file_size", "channels", "access_count",
      "tags", "height", "left", "right" }

\* dict.get(key, default)
Get(dict, key, default) == IF key \in dict.keys THEN dict[key] ELSE default

\* dataclasses.asdict(file): every field, the child nodes as nested dicts
RECURSIVE asdict(_, _)
asdict(h, file) ==
    [ json |-> "object", keys |-> NodeKeys,
      file_id |-> h[file].file_id, filename |-> h[file].filename,
      file_path |-> h[file].file_path, file_size |-> h[file].file_size,
      channels |-> h[file].channels, access_count |-> h[file].access_count,
      tags |-> h[file].tags, height |-> h[file].height,
      left  |-> IF h[file].left = None THEN <<>> ELSE <<asdict(h, h[file].left)>>,
      right |-> IF h[file].right = None THEN <<>> ELSE <<asdict(h, h[file].right)>> ]

\* AudioFileManager.save_index: the storage directory afterwards
save_index(t, d) ==
    LET files == InorderTraversal(t.heap, t.root)
    IN  [d EXCEPT !.index = [ kind |-> "object",
                              files |-> [i \in 1..Len(files) |-> asdict(t.heap, files[i])],
                              statistics |-> get_statistics(t) ]]

\* a < b or a > b of two file_id values raises TypeError when one is a str and
\* the other a number
IsStr(file_id) == file_id >= EmptyString
CompareRaises(a, b) == IsStr(a) # IsStr(b)

\* whether _insert_recursive raises on its way down; it has assigned nothing then
RECURSIVE InsertRaises(_, _, _)
InsertRaises(h, node, file_id) ==
    /\ node # None
    /\ \/ CompareRaises(file_id, h[node].file_id)
       \/ ~CompareRaises(file_id, h[node].file_id)
          /\ \/ file_id < h[node].file_id /\ InsertRaises(h, h[node].left, file_id)
             \/ file_id > h[node].file_id /\ InsertRaises(h, h[node].right, file_id)

\* (a node built from an entry of the index that starts its access_count anew)
NodeOfEntry_ResetsAccess(file_data) ==
    [ file_id |-> Get(file_data, "file_id", EmptyString),
      filename |-> Get(file_data, "filename", <<>>),
      file_path |-> Get(file_data, "file_path", <<>>),
      file_size |-> Get(file_data, "file_size", 0),
      channels |-> Get(file_data, "channels", 1),
      access_count |-> 0,
      tags |-> Get(file_data, "tags", <<>>),
      height |-> 1, left |-> None, right |-> None ]

\* load_index, the AudioFileNode built from an entry of the index
NodeOfEntry(file_data) ==
    [ file_id |-> Get(file_data, "file_id", EmptyString),
      filename |-> Get(file_data, "filename", <<>>),
      file_path |-> Get(file_data, "file_path", <<>>),
      file_size |-> Get(file_data, "file_size", 0),
      channels |-> Get(file_data, "channels", 1),
      access_count |-> Get(file_data, "access_count", 0),
      tags |-> Get(file_data, "tags", <<>>),
      height |-> 1, left |-> None, right |-> None ]

\* load_index, the body of the loop for one entry: an entry that is no object has
\* no get (AttributeError), an insert may raise TypeError; either is caught and
\* the entry skipped
LoadEntry(t, file_data) ==
    IF file_data.json # "object" THEN t
    ELSE LET node == NodeOfEntry(file_data)
         IN  IF InsertRaises(t.heap, t.root, node.file_id) THEN t
             ELSE insert_node(t, node)

RECURSIVE LoadFiles(_, _, _)
LoadFiles(t, files, i) ==
    IF i > Len(files) THEN t ELSE LoadFiles(LoadEntry(t, files[i]), files, i + 1)

\* AudioFileManager.load_index: a missing index file is left alone, one that
\* json.load or data.get fails on is caught by the outer handler
load_index(t, index) ==
    IF index.kind = "object" THEN LoadFiles(t, index.files, 1) ELSE t

\* AudioFileManager.__init__: a new tree, filled from the index file
NewFileManager(index) == load_index(NewTree(StoreCacheSize), index)

\* what the calls of the manager return: the tree and the directory afterwards,
\* the exception raised ("none" if none), the returned flag and the returned node
Outcome(t, d, raised, ret, ref) ==
    [t |-> t, d |-> d, raised |-> raised, ret |-> ret, ref |-> ref]

\* (an add_audio_file that does not look whether the file exists and takes a
\* missing file for an empty one)
add_audio_file_Unchecked(t, d, file_path, metadata, file_id) ==
    LET audio_file == [ file_id |-> file_id, filename |-> file_path,
                        file_path |-> file_path,
                        file_size |-> IF d.files[file_path] = Absent THEN 0
                                      ELSE d.files[file_path],
                        channels |-> Get(metadata, "channels", 2),
                        access_count |-> 1,
                        tags |-> Get(metadata, "tags", <<>>),
                        height |-> 1, left |-> None, right |-> None ]
        t1 == insert_node(t, audio_file)
    IN  Outcome(t1, save_index(t1, d), "none", TRUE, Len(t.heap) + 1)

\* AudioFileManager.add_audio_file; file_id is what generate_file_id returns
add_audio_file(t, d, file_path, metadata, file_id) ==
    IF d.files[file_path] = Absent
    THEN Outcome(t, d, "AudioFileNotFoundError", FALSE, None)
    ELSE LET audio_file == [ file_id |-> file_id, filename |-> file_path,
                             file_path |-> file_path,
                             file_size |-> d.files[file_path],
                             channels |-> Get(metadata, "channels", 2),
                             access_count |-> 1,
                             tags |-> Get(metadata, "tags", <<>>),
                             height |-> 1, left |-> None, right |-> None ]
             t1 == insert_node(t, audio_file)
         IN  Outcome(t1, save_index(t1, d), "none", TRUE, Len(t.heap) + 1)

\* AudioFileManager.get_audio_file
get_audio_file(t, file_id) == find(t, file_id)

\* AudioFileManager.delete_audio_file
delete_audio_file(t, d, file_id) ==
    LET f == find(t, file_id)
    IN  IF f.r = None
        THEN Outcome(f.t, d, "none", FALSE, None)
        ELSE LET file_path == f.t.heap[f.r].file_path
                 d1  == IF d.files[file_path] # Absent
                        THEN [d EXCEPT !.files[file_path] = Absent] ELSE d
                 del == delete(f.t, file_id)
             IN  IF del.r
                 THEN Outcome(del.t, save_index(del.t, d1), "none", TRUE, None)
                 ELSE Outcome(del.t, d1, "none", FALSE, None)

\* AudioFileManager.update_processing_history: the lookup and, when it finds the
\* record, the rewrite of the index file; the entry appended to the record's
\* processing_history is among the payload fields left out of the nodes
update_processing_history(t, d, file_id) ==
    LET f == find(t, file_id)
    IN  IF f.r = None
        THEN Outcome(f.t, d, "none", FALSE, None)
        ELSE Outcome(f.t, save_index(f.t, d), "none", FALSE, f.r)

\* str.lower
LowerChar(c) == IF c = "A" THEN "a" ELSE IF c = "B" THEN "b" ELSE IF c = "C" THEN "c" ELSE c
Lower(s) == [i \in 1..Len(s) |-> LowerChar(s[i])]

\* sub in s, for strings
Contains(s, sub) ==
    \E i \in 0..(Len(s) - Len(sub)) : SubSeq(s, i + 1, i + Len(sub)) = sub

\* any(tag in file_tags for tag in tags)
AnyTagIn(tags, file_tags) ==
    \E i \in 1..Len(tags) : \E j \in 1..Len(file_tags) : tags[i] = file_tags[j]

\* search_files, the loop from the i-th file on: the results so far are results
RECURSIVE SearchLoop(_, _, _, _, _, _, _)
SearchLoop(h, all_files, i, query, tags, limit, results) ==
    IF i > Len(all_files) THEN results
    ELSE LET file == h[all_files[i]]
         IN  IF query # <<>> /\ ~Contains(Lower(file.filename), Lower(query))
             THEN SearchLoop(h, all_files, i + 1, query, tags, limit, results)
             ELSE IF tags # <<>> /\ ~AnyTagIn(tags, file.tags)
             THEN SearchLoop(h, all_files, i + 1, query, tags, limit, results)
             ELSE LET appended == Append(results, all_files[i])
                  IN  IF Len(appended) >= limit THEN appended
                      ELSE SearchLoop(h, all_files, i + 1, query, tags, limit, appended)

\* AudioFileManager.search_files: the nodes returned; tags = None and tags = [] are
\* both the empty sequence
search_files(t, query, tags, limit) ==
    SearchLoop(t.heap, InorderTraversal(t.heap, t.root), 1, query, tags, limit, <<>>)

\* the file names of the storage directory
FileNames == { <<"A", "b">>, <<"c">> }

\* the storage directory before anything was stored in it
EmptyDisk ==
    [ files |-> [name \in FileNames |-> Absent],
      index |-> [kind |-> "absent", files |-> <<>>, statistics |-> get_statistics(NewTree(StoreCacheSize))] ]

\* the record of the last manager call before any call was made
NoManagerCall ==
    [ op |-> "init", file_id |-> 0, file_path |-> <<>>, query |-> <<>>, tags |-> <<>>,
      limit |-> 0, raised |-> "none", ret |-> FALSE, ref |-> None, results |-> <<>> ]

\* the store as the other specifications leave it: an empty directory, no call
InitStoreIdle == disk = EmptyDisk /\ mlast = NoManagerCall

---------------------------------------------------------------------------
(* SpecBuf: one buffer, any sequence of write, read and clear *)

\* sample values callers write: 16777215 = 2^24 - 1 is a float32, 16777217 is not
Samples == {16777215, 16777217}
\* amplitudes callers read with
Amplitudes == {1, 2, 3}
\* sample lists handed to write
SampleLists == UNION {[1..n -> Samples] : n \in 0..MaxLen}
\* counts asked of read
Counts == (-1)..MaxLen

NoCall == [op |-> "create", samples |-> <<>>, num_samples |-> 0, amplitude |-> 1,
           ret |-> 0, out |-> <<>>, tail |-> 0, raised |-> FALSE, avail_before |-> 0]

InitBuf ==
    /\ \E size \in 1..MaxCap : buf = NewBuffer(size, DefaultSampleRate)
    /\ last = NoCall
    /\ fifo = <<>>
    /\ hist = <<>>
    /\ InitTreeIdle
    /\ InitRegIdle
    /\ InitRaceIdle
    /\ InitStoreIdle

Write(samples) ==
    /\ buf.total_written < MaxTotal
    /\ LET w == write(buf, samples)
       IN  /\ buf' = w.buf
           /\ last' = [NoCall EXCEPT !.op = "write", !.samples = samples,
                                     !.ret = w.ret, !.tail = w.tail,
                                     !.avail_before = buf.available]
           /\ fifo' = fifo \o SubSeq(samples, 1, w.ret)
    /\ UNCHANGED <<hist, treeVars, regVars, storeVars, raceVars>>

Read(num_samples, amplitude) ==
    /\ LET r == read(buf, num_samples, amplitude)
       IN  /\ buf' = r.buf
           /\ last' = [NoCall EXCEPT !.op = "read", !.num_samples = num_samples,
                                     !.amplitude = amplitude, !.ret = Len(r.ret),
                                     !.out = r.ret, !.raised = r.raised,
                                     !.avail_before = buf.available]
           /\ fifo' = SubSeq(fifo, Len(r.ret) + 1, Len(fifo))
    /\ UNCHANGED <<hist, treeVars, regVars, storeVars, raceVars>>

Clear ==
    /\ buf' = clear(buf)
    /\ last' = [NoCall EXCEPT !.op = "clear", !.avail_before = buf.available]
    /\ fifo' = <<>>
    /\ UNCHANGED <<hist, treeVars, regVars, storeVars, raceVars>>

NextBuf ==
    \/ \E samples \in SampleLists : Write(samples)
    \/ \E n \in Counts, a \in Amplitudes : Read(n, a)
    \/ Clear

SpecBuf == InitBuf /\ [][NextBuf]_vars

---------------------------------------------------------------------------
(* SpecWrap: the capacity-1000 buffer of test_audio_buffer, written and read in
   the block sizes of the test and of the wrap-around scenario *)

\* buffer = AudioBuffer(1000)
TestCapacity == 1000
WrapWriteSizes == {100, 600, 995}
WrapReadSizes == {50, 500}
WrapAmplitudes == {1, 2}

\* [v] * n
Repeat(v, n) == [i \in 1..n |-> v]

InitWrap ==
    /\ buf = NewBuffer(TestCapacity, DefaultSampleRate)
    /\ last = NoCall
    /\ fifo = <<>>
    /\ hist = <<>>
    /\ InitTreeIdle
    /\ InitRegIdle
    /\ InitRaceIdle
    /\ InitStoreIdle

\* buffer.write([v] * n)
WrapWrite(n, v) ==
    /\ Len(hist) < MaxHist
    /\ LET samples == Repeat(v, n)
           w == write(buf, samples)
       IN  /\ buf' = w.buf
           /\ last' = [NoCall EXCEPT !.op = "write", !.samples = <<v>>,
                                     !.ret = w.ret, !.tail = w.tail,
                                     !.avail_before = buf.available]
           /\ fifo' = fifo \o SubSeq(samples, 1, w.ret)
    /\ hist' = Append(hist, <<"write", n>>)
    /\ UNCHANGED <<treeVars, regVars, storeVars, raceVars>>

\* buffer.read(n, amplitude)
WrapRead(n, amplitude) ==
    /\ Len(hist) < MaxHist
    /\ LET r == read(buf, n, amplitude)
       IN  /\ buf' = r.buf
           /\ last' = [NoCall EXCEPT !.op = "read", !.num_samples = n,
                                     !.amplitude = amplitude, !.ret = Len(r.ret),
                                     !.out = r.ret, !.raised = r.raised,
                                     !.avail_before = buf.available]
           /\ fifo' = SubSeq(fifo, Len(r.ret) + 1, Len(fifo))
    /\ hist' = Append(hist, <<"read", n>>)
    /\ UNCHANGED <<treeVars, regVars, storeVars, raceVars>>

NextWrap ==
    \/ \E n \in WrapWriteSizes, v \in Samples : WrapWrite(n, v)
    \/ \E n \in WrapReadSizes, a \in WrapAmplitudes : WrapRead(n, a)

SpecWrap == InitWrap /\ [][NextWrap]_vars

---------------------------------------------------------------------------
(* SpecTree: any sequence of insert, find and delete on one tree *)

\* identifiers 1..NumIds stand for the file_id strings in their order
NumIds == 5
\* largest cache_size a tree is constructed with
MaxCacheSize == 1
\* insert is offered while total_size is below this
MaxTotalSize == 6
\* a call that increments an access_count is offered while the increments the
\* live objects carry are fewer than this
MaxAccess == 1
\* delete is offered while file_count is above -MaxDrift
MaxDrift == 1

FileIds == 1..NumIds

\* the node of the tree holding file_id, or None (a lookup without side effects)
RECURSIVE Lookup(_, _, _)
Lookup(h, node, file_id) ==
    IF node = None \/ h[node].file_id = file_id THEN node
    ELSE IF file_id < h[node].file_id THEN Lookup(h, h[node].left, file_id)
    ELSE Lookup(h, h[node].right, file_id)

\* the object whose access_count find(file_id) would increment, or None
FindTarget(t, file_id) ==
    IF InCache(t.cache, file_id) THEN CacheGet(t.cache, file_id)
    ELSE Lookup(t.heap, t.root, file_id)

\* the increments of access_count the live objects carry
RECURSIVE AccessSum(_, _)
AccessSum(h, n) == IF n = 0 THEN 0 ELSE (h[n].access_count - 1) + AccessSum(h, n - 1)

\* the filename an upload of file_id carries: the first upload of an identifier is
\* named after it, an upload under an identifier the tree already holds has
\* another name
UploadName(t, file_id) ==
    IF Lookup(t.heap, t.root, file_id) = None THEN file_id ELSE file_id + NumIds

\* the buffer as the other specifications leave it: constructed, never called
InitBufIdle == buf = NewBuffer(1, DefaultSampleRate) /\ last = NoCall /\ fifo = <<>> /\ hist = <<>>

InitTree ==
    /\ \E cache_size \in 1..MaxCacheSize : tree = NewTree(cache_size)
    /\ tlast = NoTreeCall
    /\ InitBufIdle
    /\ InitRegIdle
    /\ InitRaceIdle
    /\ InitStoreIdle

Insert(file_id, file_size) ==
    /\ tree.total_size < MaxTotalSize
    /\ Lookup(tree.heap, tree.root, file_id) # None
          => AccessSum(tree.heap, Len(tree.heap)) < MaxAccess
    /\ LET c == Compact(insert(tree, file_id, UploadName(tree, file_id), file_size),
                        Len(tree.heap) + 1)
       IN  /\ tree' = c.t
           /\ tlast' = [op |-> "insert", file_id |-> file_id, ret |-> FALSE, ref |-> c.ref,
                        root_before |-> RootId(tree)]
    /\ UNCHANGED <<bufVars, regVars, storeVars, raceVars>>

Find(file_id) ==
    /\ FindTarget(tree, file_id) # None
          => AccessSum(tree.heap, Len(tree.heap)) < MaxAccess
    /\ LET f == find(tree, file_id)
           c == Compact(f.t, f.r)
       IN  /\ tree' = c.t
           /\ tlast' = [op |-> "find", file_id |-> file_id, ret |-> f.r # None, ref |-> c.ref,
                        root_before |-> RootId(tree)]
    /\ UNCHANGED <<bufVars, regVars, storeVars, raceVars>>

Delete(file_id) ==
    /\ tree.file_count > 0 - MaxDrift
    /\ LET d == delete(tree, file_id)
           c == Compact(d.t, None)
       IN  /\ tree' = c.t
           /\ tlast' = [op |-> "delete", file_id |-> file_id, ret |-> d.r, ref |-> None,
                        root_before |-> RootId(tree)]
    /\ UNCHANGED <<bufVars, regVars, storeVars, raceVars>>

NextTree ==
    \/ \E file_id \in FileIds : Insert(file_id, 1)
    \/ \E file_id \in FileIds : Find(file_id)
    \/ \E file_id \in FileIds : Delete(file_id)

SpecTree == InitTree /\ [][NextTree]_vars

---------------------------------------------------------------------------
(* SpecGrow: a tree that only grows, by inserts of identifiers it does not hold,
   in any order *)

InitGrow ==
    /\ tree = NewTree(MaxCacheSize)
    /\ tlast = NoTreeCall
    /\ InitBufIdle
    /\ InitRegIdle
    /\ InitRaceIdle
    /\ InitStoreIdle

\* tree.insert of a record under an identifier the tree does not hold
InsertNew(file_id) ==
    /\ tree.file_count < MaxInserts
    /\ Lookup(tree.heap, tree.root, file_id) = None
    /\ LET c == Compact(insert(tree, file_id, file_id, 1), Len(tree.heap) + 1)
       IN  /\ tree' = c.t
           /\ tlast' = [op |-> "insert", file_id |-> file_id, ret |-> FALSE, ref |-> c.ref,
                        root_before |-> RootId(tree)]
    /\ UNCHANGED <<bufVars, regVars, storeVars, raceVars>>

NextGrow == \E file_id \in 1..MaxInserts : InsertNew(file_id)

SpecGrow == InitGrow /\ [][NextGrow]_vars

---------------------------------------------------------------------------
(* SpecCache: the tree with a cache of up to CacheCapacity entries over a few
   identifiers, so that the cache fills, overflows and is hit *)

CacheIds == 1..NumCacheIds

InitCache ==
    /\ \E cache_size \in 1..CacheCapacity : tree = NewTree(cache_size)
    /\ tlast = NoTreeCall
    /\ InitBufIdle
    /\ InitRegIdle
    /\ InitRaceIdle
    /\ InitStoreIdle

NextCache ==
    \/ \E file_id \in CacheIds : Insert(file_id, 1)
    \/ \E file_id \in CacheIds : Find(file_id)
    \/ \E file_id \in CacheIds : Delete(file_id)

SpecCache == InitCache /\ [][NextCache]_vars

---------------------------------------------------------------------------
(* SpecStore: one AudioFileManager over its storage directory: uploads written
   to the directory, add_audio_file, get_audio_file, delete_audio_file, and the
   restart of the process (a new manager that loads the index file) *)

\* identifiers generate_file_id may return
NumStoreIds == 3
\* add_audio_file is offered while total_size is below this
MaxStoreTotal == 3
\* get_audio_file is offered while the increments of access_count the live
\* objects carry are fewer than this
MaxStoreAccess == 1

StoreIds == 1..NumStoreIds

\* the metadata dict of the upload endpoint, and one without the keys
Metadatas ==
    { [keys |-> {"channels", "tags"}, channels |-> 1, tags |-> <<"uploaded">>],
      [keys |-> {}, channels |-> 0, tags |-> <<>>] }

\* the arguments of search_files
Queries == { <<>>, <<"a", "B">> }
TagLists == { <<>>, <<"x", "uploaded">> }
Limits == { -1, 0, 1, 2, 100 }

InitStore ==
    /\ tree = NewFileManager(EmptyDisk.index)
    /\ tlast = NoTreeCall
    /\ disk = EmptyDisk
    /\ mlast = NoManagerCall
    /\ InitBufIdle
    /\ InitRegIdle
    /\ InitRaceIdle

\* the upload endpoint writes the uploaded file into the storage directory
WriteFile(name, size) ==
    /\ disk.files[name] # size
    /\ disk' = [disk EXCEPT !.files[name] = size]
    /\ mlast' = [NoManagerCall EXCEPT !.op = "write_file", !.file_path = name]
    /\ UNCHANGED <<bufVars, treeVars, regVars, raceVars>>

AddAudioFile(file_path, metadata, file_id) ==
    /\ tree.total_size < MaxStoreTotal
    /\ Lookup(tree.heap, tree.root, file_id) = None
    /\ LET a == add_audio_file(tree, disk, file_path, metadata, file_id)
           c == Compact(a.t, a.ref)
       IN  /\ tree' = c.t
           /\ disk' = a.d
           /\ mlast' = [NoManagerCall EXCEPT !.op = "add_audio_file", !.file_id = file_id,
                                             !.file_path = file_path, !.raised = a.raised,
                                             !.ret = a.ret, !.ref = c.ref]
    /\ UNCHANGED <<bufVars, tlast, regVars, raceVars>>

GetAudioFile(file_id) ==
    /\ FindTarget(tree, file_id) # None
          => AccessSum(tree.heap, Len(tree.heap)) < MaxStoreAccess
    /\ LET f == get_audio_file(tree, file_id)
           c == Compact(f.t, f.r)
       IN  /\ tree' = c.t
           /\ mlast' = [NoManagerCall EXCEPT !.op = "get_audio_file", !.file_id = file_id,
                                             !.ret = f.r # None, !.ref = c.ref]
    /\ UNCHANGED <<bufVars, tlast, regVars, disk, raceVars>>

DeleteAudioFile(file_id) ==
    /\ LET r == delete_audio_file(tree, disk, file_id)
           c == Compact(r.t, None)
       IN  /\ tree' = c.t
           /\ disk' = r.d
           /\ mlast' = [NoManagerCall EXCEPT !.op = "delete_audio_file", !.file_id = file_id,
                                             !.raised = r.raised, !.ret = r.ret]
    /\ UNCHANGED <<bufVars, tlast, regVars, raceVars>>

SearchFiles(query, tags, limit) ==
    /\ mlast' = [NoManagerCall EXCEPT !.op = "search_files", !.query = query, !.tags = tags,
                                      !.limit = limit,
                                      !.results = search_files(tree, query, tags, limit)]
    /\ UNCHANGED <<bufVars, treeVars, regVars, disk, raceVars>>

\* the process is started again: AudioFileManager.__init__
Restart ==
    /\ tree' = Compact(NewFileManager(disk.index), None).t
    /\ mlast' = [NoManagerCall EXCEPT !.op = "restart"]
    /\ UNCHANGED <<bufVars, tlast, regVars, disk, raceVars>>

NextStore ==
    \/ \E name \in FileNames : WriteFile(name, 1)
    \/ \E file_path \in FileNames, metadata \in Metadatas, file_id \in StoreIds :
          AddAudioFile(file_path, metadata, file_id)
    \/ \E file_id \in StoreIds : GetAudioFile(file_id)
    \/ \E file_id \in StoreIds : DeleteAudioFile(file_id)
    \/ Restart

SpecStore == InitStore /\ [][NextStore]_vars

---------------------------------------------------------------------------
(* SpecSearch: the manager's store built up and taken down by uploads and
   deletions, and searched *)

InitSearch == InitStore

NextSearch ==
    \/ \E name \in FileNames : WriteFile(name, 1)
    \/ \E file_path \in FileNames, metadata \in Metadatas, file_id \in StoreIds :
          AddAudioFile(file_path, metadata, file_id)
    \/ \E file_id \in StoreIds : DeleteAudioFile(file_id)
    \/ \E query \in Queries, tags \in TagLists, limit \in Limits :
          SearchFiles(query, tags, limit)

SpecSearch == InitSearch /\ [][NextSearch]_vars

---------------------------------------------------------------------------
(* SpecCheckpoint: the calls of the AudioFileManager that rewrite the index
   file (add_audio_file, delete_audio_file, update_processing_history), uploads
   and the restart of the process *)

InitCheckpoint == InitStore

UpdateProcessingHistory(file_id) ==
    /\ FindTarget(tree, file_id) # None
          => AccessSum(tree.heap, Len(tree.heap)) < MaxStoreAccess
    /\ LET u == update_processing_history(tree, disk, file_id)
           c == Compact(u.t, u.ref)
       IN  /\ tree' = c.t
           /\ disk' = u.d
           /\ mlast' = [NoManagerCall EXCEPT !.op = "update_processing_history",
                                             !.file_id = file_id, !.raised = u.raised,
                                             !.ret = u.ret, !.ref = c.ref]
    /\ UNCHANGED <<bufVars, tlast, regVars, raceVars>>

NextCheckpoint ==
    \/ \E name \in FileNames : WriteFile(name, 1)
    \/ \E file_path \in FileNames, metadata \in Metadatas, file_id \in StoreIds :
          AddAudioFile(file_path, metadata, file_id)
    \/ \E file_id \in StoreIds : DeleteAudioFile(file_id)
    \/ \E file_id \in StoreIds : UpdateProcessingHistory(file_id)
    \/ Restart

SpecCheckpoint == InitCheckpoint /\ [][NextCheckpoint]_vars

---------------------------------------------------------------------------
(* SpecLoad: the process is started on an index file of any content *)

\* longest list of files in an index document the process is started on
MaxEntries == 3

\* an entry of the list files of an index document
Entry(json, keys, file_id, filename) ==
    [ json |-> json, keys |-> keys, file_id |-> file_id, filename |-> filename,
      file_path |-> filename, file_size |-> 1, channels |-> 1, access_count |-> 1,
      tags |-> <<"uploaded">>, height |-> 1, left |-> <<>>, right |-> <<>> ]

\* two entries as save_index writes them, one whose file_id is a number, an
\* object without keys and a value that is no object
IndexEntries ==
    { Entry("object", NodeKeys, 1, <<"c">>),
      Entry("object", NodeKeys, 2, <<"A", "b">>),
      Entry("object", NodeKeys, -1, <<"c">>),
      Entry("object", {}, EmptyString, <<>>),
      Entry("string", {}, EmptyString, <<>>) }

\* the lists of files of up to MaxEntries entries
EntryLists == UNION { [1..n -> IndexEntries] : n \in 0..MaxEntries }

\* the index documents: no file, a file that is no JSON object, an object
IndexDocs ==
    { [kind |-> kind, files |-> <<>>, statistics |-> EmptyDisk.index.statistics] :
         kind \in {"absent", "garbage"} }
    \cup { [kind |-> "object", files |-> files, statistics |-> EmptyDisk.index.statistics] :
              files \in EntryLists }

InitLoad ==
    /\ tree = NewTree(StoreCacheSize)
    /\ tlast = NoTreeCall
    /\ \E index \in IndexDocs : disk = [EmptyDisk EXCEPT !.index = index]
    /\ mlast = NoManagerCall
    /\ InitBufIdle
    /\ InitRegIdle
    /\ InitRaceIdle

NextLoad == Restart

SpecLoad == InitLoad /\ [][NextLoad]_vars

---------------------------------------------------------------------------
(* SpecShadow: every insert, find and delete is made on two trees, the tree
   with its cache and a tree whose cache keeps nothing *)

\* insert is offered while total_size is below this
MaxShadowSize == 4
\* find is offered while the increments of access_count the live objects of
\* either tree carry are fewer than this
MaxShadowAccess == 2

\* the fields of the node a find returned, as a list of one record; the empty
\* list for None
NodeFields(h, node) ==
    IF node = None THEN <<>>
    ELSE << [ file_id |-> h[node].file_id, filename |-> h[node].filename,
              file_size |-> h[node].file_size, tags |-> h[node].tags,
              access_count |-> h[node].access_count ] >>

InitShadow ==
    /\ \E cache_size \in 1..CacheCapacity : tree = NewTree(cache_size)
    /\ tlast = NoTreeCall
    /\ nocache = NoCacheTree
    /\ tasks = [task \in Tasks |-> IdleTask]
    /\ InitBufIdle
    /\ InitRegIdle
    /\ InitStoreIdle

ShadowInsert(file_id, file_size) ==
    /\ tree.total_size < MaxShadowSize
    /\ LET filename == UploadName(tree, file_id)
           c == Compact(insert(tree, file_id, filename, file_size), Len(tree.heap) + 1)
           n == Compact(insert(nocache.t, file_id, filename, file_size), None)
       IN  /\ tree' = c.t
           /\ tlast' = [op |-> "insert", file_id |-> file_id, ret |-> FALSE, ref |-> c.ref,
                        root_before |-> RootId(tree)]
           /\ nocache' = [t |-> n.t, ret |-> FALSE, rec |-> <<>>]
    /\ UNCHANGED <<bufVars, regVars, storeVars, tasks>>

ShadowFind(file_id) ==
    /\ AccessSum(tree.heap, Len(tree.heap)) < MaxShadowAccess
    /\ AccessSum(nocache.t.heap, Len(nocache.t.heap)) < MaxShadowAccess
    /\ LET f == find(tree, file_id)
           c == Compact(f.t, f.r)
           g == find(nocache.t, file_id)
           n == Compact(g.t, g.r)
       IN  /\ tree' = c.t
           /\ tlast' = [op |-> "find", file_id |-> file_id, ret |-> f.r # None, ref |-> c.ref,
                        root_before |-> RootId(tree)]
           /\ nocache' = [t |-> n.t, ret |-> g.r # None, rec |-> NodeFields(n.t.heap, n.ref)]
    /\ UNCHANGED <<bufVars, regVars, storeVars, tasks>>

ShadowDelete(file_id) ==
    /\ tree.file_count > 0 - MaxDrift
    /\ LET d == delete(tree, file_id)
           c == Compact(d.t, None)
           e == delete(nocache.t, file_id)
           n == Compact(e.t, None)
       IN  /\ tree' = c.t
           /\ tlast' = [op |-> "delete", file_id |-> file_id, ret |-> d.r, ref |-> None,
                        root_before |-> RootId(tree)]
           /\ nocache' = [t |-> n.t, ret |-> e.r, rec |-> <<>>]
    /\ UNCHANGED <<bufVars, regVars, storeVars, tasks>>

NextShadow ==
    \/ \E file_id \in CacheIds : ShadowInsert(file_id, 1)
    \/ \E file_id \in CacheIds : ShadowFind(file_id)
    \/ \E file_id \in CacheIds : ShadowDelete(file_id)

SpecShadow == InitShadow /\ [][NextShadow]_vars

---------------------------------------------------------------------------
(* SpecRace: callers of one tree whose calls of insert and delete run statement
   by statement and interleave; nothing in AVLAudioTree keeps them apart.

   `self.root = self._insert_recursive(self.root, audio_file)` is two steps,
   the evaluation of the right-hand side (the whole recursion, which assigns to
   the nodes it visits) and the assignment of self.root; `self.file_count += 1`
   is the read and the write of the attribute.  nocache.t is the tree that the
   same calls give when each of them runs alone, in the order of their
   returns. *)

\* identifiers the callers insert and delete
NumRaceIds == 3
\* calls of one caller
MaxTaskCalls == 2
\* cache_size of the tree
RaceCacheSize == 2

RaceIds == 1..NumRaceIds
\* identifiers the callers delete
RaceDeleteIds == 1..(NumRaceIds - 1)

\* the object a caller inserts
RaceNode(file_id) == NewNode(file_id, file_id, 1)

InitRace ==
    /\ tree = NewTree(RaceCacheSize)
    /\ tlast = NoTreeCall
    /\ nocache = NoCacheTree
    /\ tasks = [task \in Tasks |-> IdleTask]
    /\ InitBufIdle
    /\ InitRegIdle
    /\ InitStoreIdle

\* a caller as it starts a call
Started(task, op, file_id) ==
    [tasks[task] EXCEPT
        !.op = op, !.file_id = file_id, !.calls = tasks[task].calls + 1,
        !.overlapped = tasks[task].overlapped \/ \E other \in Tasks : tasks[other].pc # "idle"]

\* a caller as its call returns
Finished(task) ==
    [tasks[task] EXCEPT !.pc = "idle", !.op = "none", !.file_id = 0,
                        !.node = None, !.result = None, !.count = 0]

\* after a call has returned: the same call on the tree of the calls run alone
Alone(op, file_id) ==
    [nocache EXCEPT !.t =
        IF op = "insert" THEN Compact(insert_node(nocache.t, RaceNode(file_id)), None).t
                         ELSE Compact(delete(nocache.t, file_id).t, None).t]

\* a caller constructs an AudioFileNode and calls insert
CallInsert(task, file_id) ==
    /\ tasks[task].pc = "idle"
    /\ tasks[task].calls < MaxTaskCalls
    /\ tree' = [tree EXCEPT !.heap = Append(tree.heap, RaceNode(file_id))]
    /\ tasks' = [tasks EXCEPT ![task] =
          [Started(task, "insert", file_id) EXCEPT
              !.pc = "insert_recursive", !.node = Len(tree.heap) + 1]]
    /\ UNCHANGED <<bufVars, tlast, regVars, storeVars, nocache>>

\* insert: self._insert_recursive(self.root, audio_file)
InsertDescend(task) ==
    /\ tasks[task].pc = "insert_recursive"
    /\ LET ins == InsertRecursive(tree.heap, tree.root, tasks[task].node)
       IN  /\ tree' = [tree EXCEPT !.heap = ins.h]
           /\ tasks' = [tasks EXCEPT ![task].pc = "insert_root", ![task].result = ins.r]
    /\ UNCHANGED <<bufVars, tlast, regVars, storeVars, nocache>>

\* insert: self.root = (what the recursion returned)
InsertSetRoot(task) ==
    /\ tasks[task].pc = "insert_root"
    /\ tree' = [tree EXCEPT !.root = tasks[task].result]
    /\ tasks' = [tasks EXCEPT ![task].pc = "insert_count"]
    /\ UNCHANGED <<bufVars, tlast, regVars, storeVars, nocache>>

\* insert: the read of self.file_count in self.file_count += 1
InsertLoadCount(task) ==
    /\ tasks[task].pc = "insert_count"
    /\ tasks' = [tasks EXCEPT ![task].pc = "insert_count_store",
                              ![task].count = tree.file_count]
    /\ UNCHANGED <<bufVars, treeVars, regVars, storeVars, nocache>>

\* insert: the write of self.file_count in self.file_count += 1
InsertStoreCount(task) ==
    /\ tasks[task].pc = "insert_count_store"
    /\ tree' = [tree EXCEPT !.file_count = tasks[task].count + 1]
    /\ tasks' = [tasks EXCEPT ![task].pc = "insert_cache"]
    /\ UNCHANGED <<bufVars, tlast, regVars, storeVars, nocache>>

\* insert: self.total_size += audio_file.file_size, the cache update, the return
InsertEnd(task) ==
    /\ tasks[task].pc = "insert_cache"
    /\ LET t == tasks[task]
       IN  /\ tree' = [tree EXCEPT
                 !.total_size = tree.total_size + tree.heap[t.node].file_size,
                 !.cache = CacheEvict(CacheSet(tree.cache, tree.heap[t.node].file_id, t.node),
                                      tree.cache_size)]
           /\ tasks' = [tasks EXCEPT ![task] =
                 [Finished(task) EXCEPT !.inserted = t.inserted \cup {t.file_id}]]
           /\ nocache' = Alone("insert", t.file_id)
    /\ UNCHANGED <<bufVars, tlast, regVars, storeVars>>

\* a caller calls delete
CallDelete(task, file_id) ==
    /\ tasks[task].pc = "idle"
    /\ tasks[task].calls < MaxTaskCalls
    /\ tasks' = [tasks EXCEPT ![task] =
          [Started(task, "delete", file_id) EXCEPT
              !.pc = "delete_cache", !.deleted = tasks[task].deleted \cup {file_id}]]
    /\ UNCHANGED <<bufVars, treeVars, regVars, storeVars, nocache>>

\* delete: if file_id in self.cache: del self.cache[file_id]
DeleteCache(task) ==
    /\ tasks[task].pc = "delete_cache"
    /\ tree' = [tree EXCEPT !.cache =
          IF InCache(tree.cache, tasks[task].file_id)
          THEN CacheDel(tree.cache, tasks[task].file_id) ELSE tree.cache]
    /\ tasks' = [tasks EXCEPT ![task].pc = "delete_recursive"]
    /\ UNCHANGED <<bufVars, tlast, regVars, storeVars, nocache>>

\* delete: self._delete_recursive(self.root, file_id)
DeleteDescend(task) ==
    /\ tasks[task].pc = "delete_recursive"
    /\ LET del == DeleteRecursive(tree.heap, tree.root, tasks[task].file_id)
       IN  /\ tree' = [tree EXCEPT !.heap = del.h]
           /\ tasks' = [tasks EXCEPT ![task].pc = "delete_root", ![task].result = del.r]
    /\ UNCHANGED <<bufVars, tlast, regVars, storeVars, nocache>>

\* delete: self.root = (what the recursion returned)
DeleteSetRoot(task) ==
    /\ tasks[task].pc = "delete_root"
    /\ tree' = [tree EXCEPT !.root = tasks[task].result]
    /\ tasks' = [tasks EXCEPT ![task].pc = "delete_test"]
    /\ UNCHANGED <<bufVars, tlast, regVars, storeVars, nocache>>

\* delete: if self.root: and the read of self.file_count, or return False
DeleteTest(task) ==
    /\ tasks[task].pc = "delete_test"
    /\ IF tree.root # None
       THEN /\ tasks' = [tasks EXCEPT ![task].pc = "delete_count_store",
                                      ![task].count = tree.file_count]
            /\ UNCHANGED nocache
       ELSE /\ tasks' = [tasks EXCEPT ![task] = Finished(task)]
            /\ nocache' = [Alone("delete", tasks[task].file_id) EXCEPT !.ret = FALSE]
    /\ UNCHANGED <<bufVars, treeVars, regVars, storeVars>>

\* delete: the write of self.file_count in self.file_count -= 1, return True
DeleteStoreCount(task) ==
    /\ tasks[task].pc = "delete_count_store"
    /\ tree' = [tree EXCEPT !.file_count = tasks[task].count - 1]
    /\ tasks' = [tasks EXCEPT ![task] = Finished(task)]
    /\ nocache' = [Alone("delete", tasks[task].file_id) EXCEPT !.ret = TRUE]
    /\ UNCHANGED <<bufVars, tlast, regVars, storeVars>>

NextRace ==
    \E task \in Tasks :
        \/ \E file_id \in RaceIds : CallInsert(task, file_id)
        \/ InsertDescend(task)
        \/ InsertSetRoot(task)
        \/ InsertLoadCount(task)
        \/ InsertStoreCount(task)
        \/ InsertEnd(task)
        \/ \E file_id \in RaceDeleteIds : CallDelete(task, file_id)
        \/ DeleteCache(task)
        \/ DeleteDescend(task)
        \/ DeleteSetRoot(task)
        \/ DeleteTest(task)
        \/ DeleteStoreCount(task)

SpecRace == InitRace /\ [][NextRace]_vars

---------------------------------------------------------------------------
(* SpecReg: threads calling the manager and the buffers they got from it.

   Every call is a sequence of steps of its thread: the call itself (the thread
   arrives at the with-statement), the acquisition of the lock, and the body of
   the with-block, which ends by releasing the lock and returning.  The bodies
   of get_all_buffer_statuses and clear_all_buffers acquire and release the lock
   of one buffer after the other while the manager's lock stays held;
   get_statistics reads the buffers' fields without their locks, one sum after
   the other. *)

\* sizes and sample rates callers pass to create_buffer (None: the argument's default)
CreateArgs == { [size |-> None, sample_rate |-> None], [size |-> 1, sample_rate |-> 48000] }
\* sample lists callers write, counts they read (amplitude 1)
RegSampleLists == {<<16777217>>}
RegCounts == {-1, 1}

ManagerOps == {"create_buffer", "get_buffer", "delete_buffer",
               "get_all_buffer_statuses", "clear_all_buffers", "get_statistics"}
BufferOps == {"write", "read", "clear", "get_status"}

InitReg == InitRegIdle /\ InitBufIdle /\ InitTreeIdle /\ InitStoreIdle /\ InitRaceIdle

\* the thread as a new call finds it: the results of the call before are gone
Calling(th, op) ==
    [IdleThread EXCEPT !.pc = IF op \in ManagerOps THEN "manager_lock" ELSE "buffer_lock",
                       !.op = op, !.buffer = th.buffer, !.calls = th.calls + 1]

\* the thread as a finished call leaves it
Returned(th) == [th EXCEPT !.pc = "idle", !.i = 0, !.total_samples = 0]

CanCall(t) == threads[t].pc = "idle" /\ threads[t].calls < MaxCalls

\* a thread calls create_buffer(session_id, size, sample_rate)
CallCreateBuffer(t, session_id, size, sample_rate) ==
    /\ CanCall(t)
    /\ threads' = [threads EXCEPT ![t] =
          [Calling(threads[t], "create_buffer") EXCEPT
              !.session_id = session_id, !.size = size, !.sample_rate = sample_rate]]
    /\ UNCHANGED <<manager, objects, bufVars, treeVars, storeVars, raceVars>>

\* a thread calls get_buffer(session_id) or delete_buffer(session_id)
CallWithSession(t, op, session_id) ==
    /\ CanCall(t)
    /\ threads' = [threads EXCEPT ![t] =
          [Calling(threads[t], op) EXCEPT !.session_id = session_id]]
    /\ UNCHANGED <<manager, objects, bufVars, treeVars, storeVars, raceVars>>

\* a thread calls get_all_buffer_statuses(), clear_all_buffers() or get_statistics()
CallWithoutArgs(t, op) ==
    /\ CanCall(t)
    /\ threads' = [threads EXCEPT ![t] = Calling(threads[t], op)]
    /\ UNCHANGED <<manager, objects, bufVars, treeVars, storeVars, raceVars>>

\* a thread calls write, read, clear or get_status of the buffer it holds
CallBuffer(t, op, samples, num_samples) ==
    /\ CanCall(t)
    /\ threads[t].buffer # None
    /\ threads' = [threads EXCEPT ![t] =
          [Calling(threads[t], op) EXCEPT !.samples = samples, !.num_samples = num_samples]]
    /\ UNCHANGED <<manager, objects, bufVars, treeVars, storeVars, raceVars>>

\* with self.lock: of the manager's methods
AcquireManagerLock(t) ==
    /\ threads[t].pc = "manager_lock"
    /\ manager.lock = Free
    /\ manager' = [manager EXCEPT !.lock = t]
    /\ threads' = [threads EXCEPT ![t].pc = threads[t].op, ![t].i = 1]
    /\ UNCHANGED <<objects, bufVars, treeVars, storeVars, raceVars>>

\* the body of create_buffer
CreateBuffer(t) ==
    /\ threads[t].pc = "create_buffer"
    /\ LET th == threads[t]
           c  == create_buffer(manager.buffers, objects, th.session_id, th.size, th.sample_rate)
       IN  /\ manager' = [buffers |-> c.buffers, lock |-> ReleaseLock(manager.lock)]
           /\ objects' = c.objects
           /\ threads' = [threads EXCEPT ![t] =
                             [Returned(th) EXCEPT !.ret = c.ret, !.buffer = c.ret]]
    /\ UNCHANGED <<bufVars, treeVars, storeVars, raceVars>>

\* the body of get_buffer
GetBuffer(t) ==
    /\ threads[t].pc = "get_buffer"
    /\ LET th == threads[t]
           b  == get_buffer(manager.buffers, th.session_id)
       IN  /\ manager' = [manager EXCEPT !.lock = ReleaseLock(manager.lock)]
           /\ threads' = [threads EXCEPT ![t] =
                             [Returned(th) EXCEPT !.ret = b, !.buffer = b]]
    /\ UNCHANGED <<objects, bufVars, treeVars, storeVars, raceVars>>

\* the body of delete_buffer
DeleteBuffer(t) ==
    /\ threads[t].pc = "delete_buffer"
    /\ LET th == threads[t]
           d  == delete_buffer(manager.buffers, th.session_id)
       IN  /\ manager' = [buffers |-> d.buffers, lock |-> ReleaseLock(manager.lock)]
           /\ threads' = [threads EXCEPT ![t] = [Returned(th) EXCEPT !.ok = d.ret]]
    /\ UNCHANGED <<objects, bufVars, treeVars, storeVars, raceVars>>

\* the buffer the loop of get_all_buffer_statuses / clear_all_buffers is at
LoopBuffer(t) == manager.buffers[threads[t].i].ref

InLoop(t) ==
    /\ threads[t].pc \in {"get_all_buffer_statuses", "clear_all_buffers"}
    /\ threads[t].i <= Len(manager.buffers)

\* buffer.get_status() / buffer.clear() called by the manager's loop: with self.lock:
\* of the buffer, the manager's lock held
LoopAcquire(t) ==
    /\ InLoop(t)
    /\ objects[LoopBuffer(t)].lock = Free
    /\ objects' = [objects EXCEPT ![LoopBuffer(t)].lock = t]
    /\ threads' = [threads EXCEPT ![t].pc =
          IF threads[t].pc = "get_all_buffer_statuses" THEN "loop_get_status" ELSE "loop_clear"]
    /\ UNCHANGED <<manager, bufVars, treeVars, storeVars, raceVars>>

\* the body of get_status for the buffer the loop is at
LoopGetStatus(t) ==
    /\ threads[t].pc = "loop_get_status"
    /\ LET th == threads[t]
           o  == objects[LoopBuffer(t)]
       IN  /\ objects' = [objects EXCEPT ![LoopBuffer(t)].lock = ReleaseLock(o.lock)]
           /\ threads' = [threads EXCEPT ![t] =
                 [th EXCEPT !.pc = "get_all_buffer_statuses", !.i = th.i + 1,
                            !.statuses = Append(th.statuses,
                                [session_id |-> manager.buffers[th.i].key,
                                 status |-> get_status(o.obj)])]]
    /\ UNCHANGED <<manager, bufVars, treeVars, storeVars, raceVars>>

\* the body of clear for the buffer the loop is at
LoopClear(t) ==
    /\ threads[t].pc = "loop_clear"
    /\ LET th == threads[t]
           o  == objects[LoopBuffer(t)]
       IN  /\ objects' = [objects EXCEPT ![LoopBuffer(t)] =
                             [obj |-> clear(o.obj), lock |-> ReleaseLock(o.lock)]]
           /\ threads' = [threads EXCEPT ![t] =
                             [th EXCEPT !.pc = "clear_all_buffers", !.i = th.i + 1]]
    /\ UNCHANGED <<manager, bufVars, treeVars, storeVars, raceVars>>

\* the loop is through: the manager's with-block ends
LoopReturn(t) ==
    /\ threads[t].pc \in {"get_all_buffer_statuses", "clear_all_buffers"}
    /\ threads[t].i > Len(manager.buffers)
    /\ manager' = [manager EXCEPT !.lock = ReleaseLock(manager.lock)]
    /\ threads' = [threads EXCEPT ![t] = Returned(threads[t])]
    /\ UNCHANGED <<objects, bufVars, treeVars, storeVars, raceVars>>

\* get_statistics: total_buffers and the first sum
StatisticsSamples(t) ==
    /\ threads[t].pc = "get_statistics"
    /\ threads' = [threads EXCEPT ![t].pc = "get_statistics_utilization",
                                  ![t].total_samples = TotalSamples(manager.buffers, objects, 1)]
    /\ UNCHANGED <<manager, objects, bufVars, treeVars, storeVars, raceVars>>

\* get_statistics: the second sum and the return
StatisticsReturn(t) ==
    /\ threads[t].pc = "get_statistics_utilization"
    /\ LET th == threads[t]
       IN  threads' = [threads EXCEPT ![t] = [Returned(th) EXCEPT !.stats =
              [ total_buffers |-> Len(manager.buffers),
                total_samples_available |-> th.total_samples,
                utilizations |-> Utilizations(manager.buffers, objects),
                active_sessions |-> [k \in 1..Len(manager.buffers) |-> manager.buffers[k].key] ]]]
    /\ manager' = [manager EXCEPT !.lock = ReleaseLock(manager.lock)]
    /\ UNCHANGED <<objects, bufVars, treeVars, storeVars, raceVars>>

\* with self.lock: of the buffer's methods, called by the thread that holds the buffer
AcquireBufferLock(t) ==
    /\ threads[t].pc = "buffer_lock"
    /\ objects[threads[t].buffer].lock = Free
    /\ objects' = [objects EXCEPT ![threads[t].buffer].lock = t]
    /\ threads' = [threads EXCEPT ![t].pc = threads[t].op]
    /\ UNCHANGED <<manager, bufVars, treeVars, storeVars, raceVars>>

\* the body of write
BufferWrite(t) ==
    /\ threads[t].pc = "write"
    /\ LET th == threads[t]
           o  == objects[th.buffer]
           w  == write(o.obj, th.samples)
       IN  /\ objects' = [objects EXCEPT ![th.buffer] =
                             [obj |-> w.buf, lock |-> ReleaseLock(o.lock)]]
           /\ threads' = [threads EXCEPT ![t] = [Returned(th) EXCEPT !.ret = w.ret]]
    /\ UNCHANGED <<manager, bufVars, treeVars, storeVars, raceVars>>

\* the body of read (amplitude 1.0, the default); when it raises, the with-block
\* still releases the lock
BufferRead(t) ==
    /\ threads[t].pc = "read"
    /\ LET th == threads[t]
           o  == objects[th.buffer]
           r  == read(o.obj, th.num_samples, 1)
       IN  /\ objects' = [objects EXCEPT ![th.buffer] =
                             [obj |-> r.buf, lock |-> ReleaseLock(o.lock)]]
           /\ threads' = [threads EXCEPT ![t] =
                             [Returned(th) EXCEPT !.out = r.ret, !.raised = r.raised]]
    /\ UNCHANGED <<manager, bufVars, treeVars, storeVars, raceVars>>

\* the body of clear
BufferClear(t) ==
    /\ threads[t].pc = "clear"
    /\ LET th == threads[t]
           o  == objects[th.buffer]
       IN  /\ objects' = [objects EXCEPT ![th.buffer] =
                             [obj |-> clear(o.obj), lock |-> ReleaseLock(o.lock)]]
           /\ threads' = [threads EXCEPT ![t] = Returned(th)]
    /\ UNCHANGED <<manager, bufVars, treeVars, storeVars, raceVars>>

\* the body of get_status
BufferGetStatus(t) ==
    /\ threads[t].pc = "get_status"
    /\ LET th == threads[t]
           o  == objects[th.buffer]
       IN  /\ objects' = [objects EXCEPT ![th.buffer].lock = ReleaseLock(o.lock)]
           /\ threads' = [threads EXCEPT ![t] = [Returned(th) EXCEPT !.statuses =
                 << [session_id |-> 0, status |-> get_status(o.obj)] >>]]
    /\ UNCHANGED <<manager, bufVars, treeVars, storeVars, raceVars>>

\* the steps that carry a call a thread has started towards its return
Progress(t) ==
    \/ AcquireManagerLock(t)
    \/ CreateBuffer(t)
    \/ GetBuffer(t)
    \/ DeleteBuffer(t)
    \/ LoopAcquire(t)
    \/ LoopGetStatus(t)
    \/ LoopClear(t)
    \/ LoopReturn(t)
    \/ StatisticsSamples(t)
    \/ StatisticsReturn(t)
    \/ AcquireBufferLock(t)
    \/ BufferWrite(t)
    \/ BufferRead(t)
    \/ BufferClear(t)
    \/ BufferGetStatus(t)

\* the calls a thread may start
Call(t) ==
    \/ \E s \in Sessions, a \in CreateArgs : CallCreateBuffer(t, s, a.size, a.sample_rate)
    \/ \E s \in Sessions, op \in {"get_buffer", "delete_buffer"} : CallWithSession(t, op, s)
    \/ \E op \in {"get_all_buffer_statuses", "clear_all_buffers", "get_statistics"} :
          CallWithoutArgs(t, op)
    \/ \E samples \in RegSampleLists : CallBuffer(t, "write", samples, 0)
    \/ \E n \in RegCounts : CallBuffer(t, "read", <<>>, n)
    \/ \E op \in {"clear", "get_status"} : CallBuffer(t, op, <<>>, 0)

NextReg == \E t \in Threads : Call(t) \/ Progress(t)

SpecReg == InitReg /\ [][NextReg]_vars

\* the scheduler runs every thread that can take a step of its call
FairSpecReg == SpecReg /\ \A t \in Threads : WF_vars(Progress(t))

---------------------------------------------------------------------------
(* SpecQuery: threads calling one buffer, statement by statement.

   Every thread gets the buffer of session 1 from create_buffer and then calls
   its methods.  A method that has a with-block arrives at it, acquires the
   lock, and runs the block one field assignment at a time; is_full, is_empty
   and get_utilization have no with-block and read the fields at once;
   get_statistics of the manager reads the fields under the manager's lock. *)

\* calls one thread makes, create_buffer included
MaxQueryCalls == 3
\* the size of the buffer of session 1
QuerySize == 2
\* sample lists the threads write, counts they read
QuerySampleLists == {<<1>>, <<1, 2, 3>>}
QueryCounts == {-1, 1, 2}

LockedOps == {"write", "read", "clear", "get_status", "available_samples"}
UnlockedOps == {"is_full", "is_empty", "get_utilization"}

\* AudioBuffer.is_full and AudioBuffer.is_empty
is_full(b) == b.available >= b.size
is_empty(b) == b.available = 0

InitQuery == InitRegIdle /\ InitBufIdle /\ InitTreeIdle /\ InitStoreIdle /\ InitRaceIdle

\* a thread calls create_buffer(1, QuerySize) or get_statistics() of the manager
QueryCallManager(t, op) ==
    /\ threads[t].pc = "idle"
    /\ threads[t].calls < MaxQueryCalls
    /\ threads' = [threads EXCEPT ![t] =
          [Calling(threads[t], op) EXCEPT !.session_id = 1, !.size = QuerySize]]
    /\ UNCHANGED <<manager, objects, bufVars, treeVars, storeVars, raceVars>>

\* a thread calls a method of the buffer it holds: one with a with-block arrives
\* at it, the others are in their body at once
QueryCallBuffer(t, op, samples, num_samples) ==
    /\ threads[t].pc = "idle"
    /\ threads[t].calls < MaxQueryCalls
    /\ threads[t].buffer # None
    /\ threads' = [threads EXCEPT ![t] =
          [Calling(threads[t], op) EXCEPT
              !.pc = IF op \in UnlockedOps THEN op ELSE "buffer_lock",
              !.samples = samples, !.num_samples = num_samples]]
    /\ UNCHANGED <<manager, objects, bufVars, treeVars, storeVars, raceVars>>

\* write up to the stores into the array; samples_to_write is kept in i
WriteBegin(t) ==
    /\ threads[t].pc = "write"
    /\ LET th == threads[t]
           o  == objects[th.buffer]
           samples_to_write == SamplesToWrite(o.obj, th.samples)
           samples_array    == [k \in 1..samples_to_write |-> F32(th.samples[k])]
       IN  IF samples_to_write = 0
           THEN /\ objects' = [objects EXCEPT ![th.buffer].lock = ReleaseLock(o.lock)]
                /\ threads' = [threads EXCEPT ![t] = [Returned(th) EXCEPT !.ret = 0]]
           ELSE /\ objects' = [objects EXCEPT ![th.buffer].obj.buffer =
                                  StoreSamples(o.obj, samples_array, samples_to_write)]
                /\ threads' = [threads EXCEPT ![t].pc = "write_ptr", ![t].i = samples_to_write]
    /\ UNCHANGED <<manager, bufVars, treeVars, storeVars, raceVars>>

\* self.write_ptr = (self.write_ptr + samples_to_write) % self.size
WritePtr(t) ==
    /\ threads[t].pc = "write_ptr"
    /\ LET th == threads[t]
       IN  /\ objects' = [objects EXCEPT ![th.buffer].obj.write_ptr =
                             NextWritePtr(objects[th.buffer].obj, th.i)]
           /\ threads' = [threads EXCEPT ![t].pc = "write_available"]
    /\ UNCHANGED <<manager, bufVars, treeVars, storeVars, raceVars>>

\* self.available = min(self.available + samples_to_write, self.size)
WriteAvailable(t) ==
    /\ threads[t].pc = "write_available"
    /\ LET th == threads[t]
           b  == objects[th.buffer].obj
       IN  /\ objects' = [objects EXCEPT ![th.buffer].obj.available =
                             Min(b.available + th.i, b.size)]
           /\ threads' = [threads EXCEPT ![t].pc = "write_total"]
    /\ UNCHANGED <<manager, bufVars, treeVars, storeVars, raceVars>>

\* self.total_written += samples_to_write, and the return
WriteEnd(t) ==
    /\ threads[t].pc = "write_total"
    /\ LET th == threads[t]
           o  == objects[th.buffer]
       IN  /\ objects' = [objects EXCEPT ![th.buffer] =
                 [obj  |-> [o.obj EXCEPT !.total_written = o.obj.total_written + th.i],
                  lock |-> ReleaseLock(o.lock)]]
           /\ threads' = [threads EXCEPT ![t] = [Returned(th) EXCEPT !.ret = th.i]]
    /\ UNCHANGED <<manager, bufVars, treeVars, storeVars, raceVars>>

\* read up to the scaled copy of the samples (amplitude 1.0); samples_to_read is
\* kept in i, result in out
ReadBegin(t) ==
    /\ threads[t].pc = "read"
    /\ LET th == threads[t]
           o  == objects[th.buffer]
           samples_to_read == SamplesToRead(o.obj, th.num_samples)
       IN  IF samples_to_read <= 0
           THEN /\ objects' = [objects EXCEPT ![th.buffer].lock = ReleaseLock(o.lock)]
                /\ threads' = [threads EXCEPT ![t] =
                                  [Returned(th) EXCEPT !.raised = samples_to_read < 0]]
           ELSE /\ threads' = [threads EXCEPT ![t].pc = "read_ptr", ![t].i = samples_to_read,
                                  ![t].out = [k \in 1..samples_to_read |->
                                                 MulF32(LoadSamples(o.obj, samples_to_read)[k], 1)]]
                /\ UNCHANGED objects
    /\ UNCHANGED <<manager, bufVars, treeVars, storeVars, raceVars>>

\* self.read_ptr = (self.read_ptr + samples_to_read) % self.size
ReadPtr(t) ==
    /\ threads[t].pc = "read_ptr"
    /\ LET th == threads[t]
       IN  /\ objects' = [objects EXCEPT ![th.buffer].obj.read_ptr =
                             NextReadPtr(objects[th.buffer].obj, th.i)]
           /\ threads' = [threads EXCEPT ![t].pc = "read_available"]
    /\ UNCHANGED <<manager, bufVars, treeVars, storeVars, raceVars>>

\* self.available -= samples_to_read
ReadAvailable(t) ==
    /\ threads[t].pc = "read_available"
    /\ LET th == threads[t]
       IN  /\ objects' = [objects EXCEPT ![th.buffer].obj.available =
                             objects[th.buffer].obj.available - th.i]
           /\ threads' = [threads EXCEPT ![t].pc = "read_total"]
    /\ UNCHANGED <<manager, bufVars, treeVars, storeVars, raceVars>>

\* self.total_read += samples_to_read, and the return of result.tolist()
ReadEnd(t) ==
    /\ threads[t].pc = "read_total"
    /\ LET th == threads[t]
           o  == objects[th.buffer]
       IN  /\ objects' = [objects EXCEPT ![th.buffer] =
                 [obj  |-> [o.obj EXCEPT !.total_read = o.obj.total_read + th.i],
                  lock |-> ReleaseLock(o.lock)]]
           /\ threads' = [threads EXCEPT ![t] = [Returned(th) EXCEPT !.out = th.out]]
    /\ UNCHANGED <<manager, bufVars, treeVars, storeVars, raceVars>>

\* clear: self.buffer.fill(0) and self.read_ptr = 0
ClearBegin(t) ==
    /\ threads[t].pc = "clear"
    /\ LET th == threads[t]
           b  == objects[th.buffer].obj
       IN  /\ objects' = [objects EXCEPT ![th.buffer].obj =
                             [b EXCEPT !.buffer = clear(b).buffer, !.read_ptr = clear(b).read_ptr]]
           /\ threads' = [threads EXCEPT ![t].pc = "clear_write_ptr"]
    /\ UNCHANGED <<manager, bufVars, treeVars, storeVars, raceVars>>

\* clear: self.write_ptr = 0
ClearWritePtr(t) ==
    /\ threads[t].pc = "clear_write_ptr"
    /\ LET th == threads[t]
       IN  /\ objects' = [objects EXCEPT ![th.buffer].obj.write_ptr =
                             clear(objects[th.buffer].obj).write_ptr]
           /\ threads' = [threads EXCEPT ![t].pc = "clear_available"]
    /\ UNCHANGED <<manager, bufVars, treeVars, storeVars, raceVars>>

\* clear: self.available = 0, and the return
ClearEnd(t) ==
    /\ threads[t].pc = "clear_available"
    /\ LET th == threads[t]
           o  == objects[th.buffer]
       IN  /\ objects' = [objects EXCEPT ![th.buffer] =
                 [obj  |-> [o.obj EXCEPT !.available = clear(o.obj).available],
                  lock |-> ReleaseLock(o.lock)]]
           /\ threads' = [threads EXCEPT ![t] = Returned(th)]
    /\ UNCHANGED <<manager, bufVars, treeVars, storeVars, raceVars>>

\* the body of available_samples
AvailableSamples(t) ==
    /\ threads[t].pc = "available_samples"
    /\ LET th == threads[t]
           o  == objects[th.buffer]
       IN  /\ objects' = [objects EXCEPT ![th.buffer].lock = ReleaseLock(o.lock)]
           /\ threads' = [threads EXCEPT ![t] = [Returned(th) EXCEPT !.ret = o.obj.available]]
    /\ UNCHANGED <<manager, bufVars, treeVars, storeVars, raceVars>>

\* is_full and is_empty: a comparison of self.available, no lock
IsFullOrEmpty(t) ==
    /\ threads[t].pc \in {"is_full", "is_empty"}
    /\ LET th == threads[t]
           b  == objects[th.buffer].obj
       IN  threads' = [threads EXCEPT ![t] = [Returned(th) EXCEPT !.ok =
              IF th.pc = "is_full" THEN is_full(b) ELSE is_empty(b)]]
    /\ UNCHANGED <<manager, objects, bufVars, treeVars, storeVars, raceVars>>

\* get_utilization: self.available / self.size, no lock
GetUtilization(t) ==
    /\ threads[t].pc = "get_utilization"
    /\ LET th == threads[t]
       IN  threads' = [threads EXCEPT ![t] =
              [Returned(th) EXCEPT !.out = get_utilization(objects[th.buffer].obj)]]
    /\ UNCHANGED <<manager, objects, bufVars, treeVars, storeVars, raceVars>>

QueryProgress(t) ==
    \/ AcquireManagerLock(t)
    \/ CreateBuffer(t)
    \/ StatisticsSamples(t)
    \/ StatisticsReturn(t)
    \/ AcquireBufferLock(t)
    \/ WriteBegin(t)
    \/ WritePtr(t)
    \/ WriteAvailable(t)
    \/ WriteEnd(t)
    \/ ReadBegin(t)
    \/ ReadPtr(t)
    \/ ReadAvailable(t)
    \/ ReadEnd(t)
    \/ ClearBegin(t)
    \/ ClearWritePtr(t)
    \/ ClearEnd(t)
    \/ BufferGetStatus(t)
    \/ AvailableSamples(t)
    \/ IsFullOrEmpty(t)
    \/ GetUtilization(t)

QueryCall(t) ==
    \/ \E op \in {"create_buffer", "get_statistics"} : QueryCallManager(t, op)
    \/ \E samples \in QuerySampleLists : QueryCallBuffer(t, "write", samples, 0)
    \/ \E n \in QueryCounts : QueryCallBuffer(t, "read", <<>>, n)
    \/ \E op \in (LockedOps \cup UnlockedOps) \ {"write", "read"} :
          QueryCallBuffer(t, op, <<>>, 0)

NextQuery == \E t \in Threads : QueryCall(t) \/ QueryProgress(t)

SpecQuery == InitQuery /\ [][NextQuery]_vars

---------------------------------------------------------------------------
(* Properties of the ring buffer *)

\* the unread samples in reading order (1-based)
Queue(b) == [i \in 1..b.available |-> b.buffer[(b.read_ptr + i - 1) % b.size]]

\* C1: in every state reached by write, read and clear from create, available is
\* within 0..size and both pointers are within 0..size-1.
C1_Bounds ==
    /\ 0 <= buf.available /\ buf.available <= buf.size
    /\ 0 <= buf.read_ptr /\ buf.read_ptr < buf.size
    /\ 0 <= buf.write_ptr /\ buf.write_ptr < buf.size

\* a write has filled the buffer with both pointers wrapped past the physical end
C1_Witness ==
    /\ last.op = "write"
    /\ buf.available = buf.size
    /\ buf.total_written > buf.size
    /\ buf.write_ptr = buf.read_ptr /\ buf.read_ptr > 0

\* C2: a write accepts exactly k = min(len(samples), size - available) samples, the
\* first k of its input: it returns k, adds k to available and to total_written,
\* advances write_ptr by k modulo size, stores those k samples (as float32) in the k
\* slots from the old write_ptr on and touches nothing else; on a full buffer it
\* returns 0 and leaves the whole buffer object unchanged.
C2_WriteContract ==
    [][ last'.op = "write" =>
          LET k == Min(Len(last'.samples), buf.size - buf.available)
          IN  /\ last'.ret = k
              /\ buf'.available = buf.available + k
              /\ buf'.total_written = buf.total_written + k
              /\ buf'.write_ptr = (buf.write_ptr + k) % buf.size
              /\ \A i \in 0..(k - 1) :
                    buf'.buffer[(buf.write_ptr + i) % buf.size] = F32(last'.samples[i + 1])
              /\ \A j \in 0..(buf.size - 1) :
                    (\A i \in 0..(k - 1) : j # (buf.write_ptr + i) % buf.size)
                        => buf'.buffer[j] = buf.buffer[j]
              /\ buf'.read_ptr = buf.read_ptr
              /\ buf'.total_read = buf.total_read
              /\ buf'.size = buf.size
              /\ (buf.available = buf.size => last'.ret = 0 /\ buf' = buf)
      ]_bufVars

\* a write that was cut short by the free space and was split across the physical end
C2_Witness ==
    /\ last.op = "write"
    /\ 0 < last.ret /\ last.ret < Len(last.samples)
    /\ 0 < last.tail /\ last.tail < last.ret

\* C3: a read of count >= 0 returns exactly r = min(count, available) samples
\* without raising, subtracts r from available, adds r to total_read, advances
\* read_ptr by r modulo size and touches nothing else; with nothing available it
\* returns the empty list and leaves the buffer object unchanged.  A read that
\* directly follows a write which accepted w samples leaves
\* available = (available before the write) + w - r, within 0..size.
C3_ReadContract ==
    [][ (last'.op = "read" /\ last'.num_samples >= 0) =>
          LET r == Min(last'.num_samples, buf.available)
          IN  /\ Len(last'.out) = r
              /\ ~last'.raised
              /\ buf'.available = buf.available - r
              /\ buf'.total_read = buf.total_read + r
              /\ buf'.read_ptr = (buf.read_ptr + r) % buf.size
              /\ buf'.buffer = buf.buffer
              /\ buf'.write_ptr = buf.write_ptr
              /\ buf'.total_written = buf.total_written
              /\ buf'.size = buf.size
              /\ (buf.available = 0 => last'.out = <<>> /\ buf' = buf)
              /\ (last.op = "write" =>
                    /\ buf'.available = last.avail_before + last.ret - r
                    /\ 0 <= buf'.available /\ buf'.available <= buf.size)
      ]_bufVars

\* a read that was cut short by what was available, right after a write, and not the
\* first read of the buffer
C3_Witness ==
    /\ last.op = "read"
    /\ 0 < last.ret /\ last.ret < last.num_samples
    /\ buf.total_read > last.ret
    /\ buf.total_written > buf.size

\* C4 as stated: reads return the accepted samples themselves, in order, each times
\* the read's amplitude, and what stays stored is the accepted samples themselves.
C4_ExactValues ==
    [][ /\ last'.op = "read" =>
            last'.out = [i \in 1..Len(last'.out) |-> fifo[i] * last'.amplitude]
        /\ Queue(buf') = fifo'
      ]_bufVars

\* C4, amended: the buffer is FIFO and lossless up to single precision.  With fifo
\* the accepted, unread samples in the order written, every read returns the next
\* Len(out) of them, each rounded to float32 when it was stored and multiplied by
\* the read's amplitude in float32; after every call the stored unread samples are
\* exactly the float32 values of the remaining accepted samples, in order, whatever
\* amplitude earlier reads used and however writes and reads were split at the
\* physical end.
C4_Fifo ==
    [][ /\ last'.op = "read" =>
            last'.out = [i \in 1..Len(last'.out) |->
                            MulF32(F32(fifo[i]), last'.amplitude)]
        /\ Queue(buf') = [i \in 1..Len(fifo') |-> F32(fifo'[i])]
      ]_bufVars

\* a read with amplitude 3 that was split across the physical end and returned a
\* rounded product (3 * 16777215 is not a float32)
C4_Witness ==
    /\ last.op = "read"
    /\ last.amplitude = 3
    /\ Len(last.out) >= 2
    /\ buf.read_ptr > 0 /\ buf.read_ptr < Len(last.out)
    /\ \E i \in 1..Len(last.out) : last.out[i] = 50331644
    /\ buf.available > 0

\* the calls of the wrap-around scenario
WrapScenario == << <<"write", 995>>, <<"read", 500>>, <<"write", 600>> >>

\* C5 as stated: after write 995, read 500, write 600 on the fresh capacity-1000
\* buffer, 500 of the new samples lie before the physical end, 100 wrapped, and
\* available is 995.
C5_AsStated ==
    /\ hist = SubSeq(WrapScenario, 1, 2) => buf.available = 495 /\ buf.read_ptr = 500
    /\ hist = WrapScenario =>
          /\ last.tail = 500
          /\ last.ret - last.tail = 100
          /\ buf.available = 995
          /\ Queue(buf) = [i \in 1..Len(fifo) |-> F32(fifo[i])]

\* C5, amended: after write 995 and read 500, available is 495 and read_ptr 500; the
\* write of 600 then accepts only the 505 samples that fit: 5 land before the
\* physical end (slots 995..999) and 500 wrap to slots 0..499, the 495 unread
\* samples are not overwritten, available becomes 1000 and write_ptr 500.
C5_WrapAround ==
    /\ hist = SubSeq(WrapScenario, 1, 2) => buf.available = 495 /\ buf.read_ptr = 500
    /\ hist = WrapScenario =>
          /\ last.ret = 505
          /\ last.tail = 5
          /\ last.ret - last.tail = 500
          /\ buf.available = 1000
          /\ buf.write_ptr = 500 /\ buf.read_ptr = 500
          /\ Len(fifo) = 1000
          /\ \A i \in 500..994 : buf.buffer[i] = F32(fifo[i - 499])
          /\ \A i \in 995..999 : buf.buffer[i] = F32(last.samples[1])
          /\ \A i \in 0..499 : buf.buffer[i] = F32(last.samples[1])
          /\ Queue(buf) = [i \in 1..Len(fifo) |-> F32(fifo[i])]

\* the scenario has run
C5_Witness ==
    /\ hist = WrapScenario
    /\ last.op = "write" /\ last.tail < last.ret
    /\ last.samples[1] # fifo[1]

WriteAfterClear ==
    /\ last.op = "write"
    /\ last.avail_before = 0
    /\ last.ret = buf.size /\ buf.size = 3
    /\ buf.total_written - last.ret > buf.total_read

\* C28: write_ptr = (read_ptr + available) mod size in every state reached by
\* write, read and clear, and a write leaves every unread slot as it was
C28_PointerRelation ==
    /\ [](buf.write_ptr = (buf.read_ptr + buf.available) % buf.size)
    /\ [][last'.op = "write" =>
             /\ \A k \in 0..(buf.available - 1) :
                   buf'.buffer[(buf.read_ptr + k) % buf.size]
                      = buf.buffer[(buf.read_ptr + k) % buf.size]
             /\ buf'.read_ptr = buf.read_ptr]_bufVars

\* a write that wrapped around the physical end into slots freed by reads, next
\* to unread samples it had to leave alone
C28_Witness ==
    /\ last.op = "write"
    /\ last.avail_before = 1
    /\ last.ret = 2
    /\ 0 < last.tail /\ last.tail < last.ret
    /\ buf.size = 3
    /\ buf.read_ptr = 1
    /\ buf.write_ptr = 1

\* C30: read(count) with count <= 0 returns the empty list without raising and
\* leaves the buffer as it was
C30_ReadNonPositive ==
    [][(last'.op = "read" /\ last'.num_samples <= 0) =>
          /\ ~last'.raised
          /\ last'.out = <<>>
          /\ buf' = buf]_bufVars

\* what read does with such a count: 0 gives the empty list; a negative count
\* raises (np.zeros of a negative length), whatever the buffer holds; the buffer
\* is unchanged either way
ReadNonPositiveEffect ==
    [][(last'.op = "read" /\ last'.num_samples <= 0) =>
          /\ last'.raised = (last'.num_samples < 0)
          /\ last'.out = <<>>
          /\ buf' = buf]_bufVars

---------------------------------------------------------------------------
(* Properties of the tree *)

\* the number of nodes in the tree
NodeCount(t) == Len(Preorder(t.heap, t.root))

\* the height of a subtree, counted from its shape
RECURSIVE TrueHeight(_, _)
TrueHeight(h, node) ==
    IF node = None THEN 0
    ELSE 1 + Max(TrueHeight(h, h[node].left), TrueHeight(h, h[node].right))

\* C8: after every completed insert, find and delete, every node of the tree
\* stores height = 1 + max(height(left), height(right)) (0 for an empty subtree),
\* which is the height of its subtree, and has a balance factor in {-1, 0, 1}.
C8_AvlInvariant ==
    \A n \in SeqRange(Preorder(tree.heap, tree.root)) :
        /\ tree.heap[n].height
              = 1 + Max(Height(tree.heap, tree.heap[n].left),
                        Height(tree.heap, tree.heap[n].right))
        /\ tree.heap[n].height = TrueHeight(tree.heap, n)
        /\ BalanceFactor(tree.heap, n) \in {-1, 0, 1}

\* identifier 5 was deleted from a five-node tree rooted at 4 and the tree is now
\* rooted at 2: the delete rotated at the root
C8_Witness ==
    /\ tlast.op = "delete" /\ tlast.ret
    /\ tlast.file_id = 5 /\ tlast.root_before = 4
    /\ InorderIds(tree) = <<1, 2, 3, 4>>
    /\ RootId(tree) = 2

\* C9: after any interleaving of insert, find and delete, get_all_files lists the
\* identifiers in strictly ascending order (so they are distinct), and every node
\* has only smaller identifiers in its left and only larger ones in its right
\* subtree.
C9_InorderAscending ==
    /\ LET ids == InorderIds(tree)
       IN  \A i \in 1..(Len(ids) - 1) : ids[i] < ids[i + 1]
    /\ \A n \in SeqRange(Preorder(tree.heap, tree.root)) :
          /\ \A m \in SeqRange(Preorder(tree.heap, tree.heap[n].left)) :
                tree.heap[m].file_id < tree.heap[n].file_id
          /\ \A m \in SeqRange(Preorder(tree.heap, tree.heap[n].right)) :
                tree.heap[m].file_id > tree.heap[n].file_id

\* the root, a node with two children whose successor was not its right child, was
\* deleted from a tree of at least four nodes
C9_Witness ==
    /\ tlast.op = "delete" /\ tlast.ret
    /\ tlast.file_id = 2 /\ tlast.root_before = 2
    /\ InorderIds(tree) = <<1, 3, 4, 5>>

\* C10: an insert under an identifier the tree already holds adds no node, leaves
\* file_count unchanged, increments the existing node's access_count by exactly 1
\* and leaves its other fields as they were.
C10_Reinsert ==
    [][ (tlast'.op = "insert" /\ Lookup(tree.heap, tree.root, tlast'.file_id) # None) =>
          LET old == tree.heap[Lookup(tree.heap, tree.root, tlast'.file_id)]
              new == tree'.heap[Lookup(tree'.heap, tree'.root, tlast'.file_id)]
          IN  /\ InorderIds(tree') = InorderIds(tree)
              /\ tree'.file_count = tree.file_count
              /\ new.access_count = old.access_count + 1
              /\ new.filename = old.filename
              /\ new.file_size = old.file_size
      ]_vars

\* what does hold of such an insert: no node is added, the existing node's
\* access_count goes up by exactly 1 and its other fields stay, while file_count
\* and total_size are incremented as for a new record
ReinsertEffect ==
    [][ (tlast'.op = "insert" /\ Lookup(tree.heap, tree.root, tlast'.file_id) # None) =>
          LET old == tree.heap[Lookup(tree.heap, tree.root, tlast'.file_id)]
              new == tree'.heap[Lookup(tree'.heap, tree'.root, tlast'.file_id)]
          IN  /\ InorderIds(tree') = InorderIds(tree)
              /\ tree'.file_count = tree.file_count + 1
              /\ new.access_count = old.access_count + 1
              /\ new.filename = old.filename
              /\ new.file_size = old.file_size
      ]_vars

\* the node objects of the tree, in pre-order; after a call the heap holds them at
\* the addresses 1 .. NodeCount, so equal sequences are equal shapes with equal records
TreeNodes(t) == SubSeq(t.heap, 1, NodeCount(t))

\* the record get_all_files lists under file_id: its payload and its access_count
RecordOf(t, file_id) ==
    LET n == t.heap[Lookup(t.heap, t.root, file_id)]
    IN  [filename |-> n.filename, file_size |-> n.file_size, tags |-> n.tags,
         access_count |-> n.access_count]

\* a sequence without its entries equal to x
Without(q, x) == SelectSeq(q, LAMBDA y : y # x)

\* C11: delete of an identifier that is not in the tree returns False and leaves
\* the shape of the tree, its records and file_count as they were, for the empty
\* and for every non-empty tree.
C11_DeleteAbsent ==
    [][ (tlast'.op = "delete" /\ Lookup(tree.heap, tree.root, tlast'.file_id) = None) =>
          /\ tlast'.ret = FALSE
          /\ TreeNodes(tree') = TreeNodes(tree)
          /\ tree'.root = tree.root
          /\ tree'.file_count = tree.file_count
      ]_vars

\* what does hold of such a delete: the tree keeps its shape and its records, the
\* call returns whether the tree is non-empty, and file_count drops by 1 when it is
DeleteAbsentEffect ==
    [][ (tlast'.op = "delete" /\ Lookup(tree.heap, tree.root, tlast'.file_id) = None) =>
          /\ TreeNodes(tree') = TreeNodes(tree)
          /\ tree'.root = tree.root
          /\ tlast'.ret = (tree.root # None)
          /\ tree'.file_count = IF tree.root # None THEN tree.file_count - 1
                                                    ELSE tree.file_count
      ]_vars

\* C12: delete of an identifier that is in the tree returns True, lowers file_count
\* by exactly 1 and leaves the in-order identifiers of before without the deleted
\* one, every remaining identifier with the payload it had; for a leaf, a node
\* with one child, a node with two children and the only node of the tree.
C12_DeletePresent ==
    [][ (tlast'.op = "delete" /\ Lookup(tree.heap, tree.root, tlast'.file_id) # None) =>
          /\ tlast'.ret = TRUE
          /\ tree'.file_count = tree.file_count - 1
          /\ InorderIds(tree') = Without(InorderIds(tree), tlast'.file_id)
          /\ \A id \in SeqRange(InorderIds(tree')) : RecordOf(tree', id) = RecordOf(tree, id)
      ]_vars

\* what does hold of such a delete: the identifiers and the payloads are as C12
\* says, but the call returns whether any record is left, and file_count is
\* lowered only then
DeletePresentEffect ==
    [][ (tlast'.op = "delete" /\ Lookup(tree.heap, tree.root, tlast'.file_id) # None) =>
          /\ InorderIds(tree') = Without(InorderIds(tree), tlast'.file_id)
          /\ \A id \in SeqRange(InorderIds(tree')) : RecordOf(tree', id) = RecordOf(tree, id)
          /\ tlast'.ret = (tree'.root # None)
          /\ tree'.file_count = IF tree'.root # None THEN tree.file_count - 1
                                                     ELSE tree.file_count
      ]_vars

\* every key of the cache is an identifier of the tree
CacheKeysInTree ==
    \A i \in 1..Len(tree.cache) : Lookup(tree.heap, tree.root, tree.cache[i].key) # None

\* C15: find of an identifier that is in the tree returns the tree's record of that
\* identifier and raises that record's access_count by exactly 1, from the cache or
\* from the tree, and after a miss the identifier is cached; find of an identifier
\* that is not in the tree returns None and changes nothing.
C15_Find ==
    [][ tlast'.op = "find" =>
          LET id == tlast'.file_id
          IN  IF Lookup(tree.heap, tree.root, id) # None
              THEN /\ tlast'.ret = TRUE
                   /\ tlast'.ref = Lookup(tree'.heap, tree'.root, id)
                   /\ RecordOf(tree', id) =
                         [RecordOf(tree, id) EXCEPT !.access_count = @ + 1]
                   /\ InCache(tree'.cache, id)
              ELSE /\ tlast'.ret = FALSE
                   /\ tree' = tree
      ]_vars

\* what does hold of find: the object returned carries the identifier asked for and
\* its access_count was raised by 1; it is the tree's node after a cache miss, and
\* whatever object the cache holds under the identifier after a hit
FindEffect ==
    [][ tlast'.op = "find" =>
          LET id == tlast'.file_id
          IN  IF FindTarget(tree, id) # None
              THEN /\ tlast'.ret = TRUE
                   /\ tree'.heap[tlast'.ref].file_id = id
                   /\ tree'.heap[tlast'.ref].access_count
                         = tree.heap[FindTarget(tree, id)].access_count + 1
                   /\ InCache(tree'.cache, id)
                   /\ ~InCache(tree.cache, id) =>
                         tlast'.ref = Lookup(tree'.heap, tree'.root, id)
              ELSE /\ tlast'.ret = FALSE
                   /\ tree' = tree
      ]_vars

(***************************************************************************)
(* The bound 1.44 * log2(N + 2) in whole numbers: h <= 1.44 * log2(N + 2)   *)
(* exactly when 2^(25 h) <= (N + 2)^36.  The powers exceed the machine      *)
(* integers, so they are computed on sequences of limbs to the base 2^15,   *)
(* least significant limb first.                                            *)
(***************************************************************************)
RECURSIVE TimesFrom(_, _, _, _)
TimesFrom(a, k, i, carry) ==
    IF i > Len(a)
    THEN IF carry = 0 THEN <<>> ELSE <<carry>>
    ELSE LET v == a[i] * k + carry
         IN  <<v % 32768>> \o TimesFrom(a, k, i + 1, v \div 32768)

\* the limbs of b^e, for 1 <= b < 32768
RECURSIVE Power(_, _)
Power(b, e) == IF e = 0 THEN <<1>> ELSE TimesFrom(Power(b, e - 1), b, 1, 0)

\* the limbs of 2^e
PowerOfTwo(e) ==
    [i \in 1..((e \div 15) + 1) |-> IF i = (e \div 15) + 1 THEN 2^(e % 15) ELSE 0]

\* a <= b for limb sequences without leading zero limbs
RECURSIVE LimbsLeqFrom(_, _, _)
LimbsLeqFrom(a, b, i) ==
    IF i = 0 THEN TRUE
    ELSE IF a[i] # b[i] THEN a[i] < b[i]
    ELSE LimbsLeqFrom(a, b, i - 1)

LimbsLeq(a, b) ==
    IF Len(a) # Len(b) THEN Len(a) < Len(b) ELSE LimbsLeqFrom(a, b, Len(a))

\* h <= 1.44 * log2(n + 2), for n + 2 <= 13 (so that (n + 2)^4 is a limb)
WithinAvlBound(h, n) == LimbsLeq(PowerOfTwo(25 * h), Power((n + 2)^4, 9))

\* C13: after N inserts of distinct identifiers, in any order, the tree_height that
\* get_statistics reports is at most 1.44 * log2(N + 2), and after three inserts
\* it is at most 2.
C13_HeightBound ==
    LET stats == get_statistics(tree)
    IN  /\ stats.total_files = NodeCount(tree)
        /\ WithinAvlBound(stats.tree_height, stats.total_files)
        /\ stats.total_files = 3 => stats.tree_height <= 2

\* seven identifiers were inserted and the tree is as high as the bound allows
\* seven nodes to be: height 4 is within 1.44 * log2(9) and height 5 is not
C13_Witness ==
    /\ tree.file_count = 7
    /\ get_statistics(tree).tree_height = 4
    /\ ~WithinAvlBound(5, 7)

\* the inserts b, a, c of the claim's example, which give height 2
InsertedBAC ==
    /\ tlast.op = "insert" /\ tlast.file_id = 3 /\ tlast.root_before = 2
    /\ InorderIds(tree) = <<1, 2, 3>>
    /\ get_statistics(tree).tree_height = 2

\* the keys of the cache, the one inserted earliest first
CacheKeys(t) == [i \in 1..Len(t.cache) |-> t.cache[i].key]

\* C14: the cache never holds more than cache_size entries; an insert or a find
\* that adds a key to a full cache evicts exactly the key that was added earliest,
\* whatever was looked up since; and with capacity 2 the inserts 1, 2, 3 leave
\* exactly 2 and 3 cached.
C14_CacheEviction ==
    /\ [](Len(tree.cache) <= tree.cache_size)
    /\ [][ LET id == tlast'.file_id
           IN  (/\ tlast'.op \in {"insert", "find"}
                /\ ~InCache(tree.cache, id)
                /\ InCache(tree'.cache, id)
                /\ Len(tree.cache) = tree.cache_size)
               => CacheKeys(tree') = Tail(CacheKeys(tree)) \o <<id>>
         ]_vars
    /\ []( (/\ tree.cache_size = 2
            /\ tlast.op = "insert" /\ tlast.file_id = 3 /\ tlast.root_before = 1
            /\ tree.total_size = 3
            /\ InorderIds(tree) = <<1, 2, 3>>)
           => CacheKeys(tree) = <<2, 3>> )

\* capacity 2: 1 and 2 were inserted, 1 was looked up (a cache hit, its
\* access_count is 2), then 3 was inserted: 2 and 3 are cached, 1 is not
C14_Witness ==
    /\ tree.cache_size = 2
    /\ tlast.op = "insert" /\ tlast.file_id = 3 /\ tlast.root_before = 1
    /\ tree.total_size = 3
    /\ InorderIds(tree) = <<1, 2, 3>>
    /\ RecordOf(tree, 1).access_count = 2
    /\ CacheKeys(tree) = <<2, 3>>

\* C21: every entry of the cache refers to the node of the tree that holds the
\* entry's key: after any inserts, finds and deletes, self.cache[k] is the very
\* object the tree holds under k
C21_CacheRefersToTree ==
    \A i \in 1..Len(tree.cache) :
        /\ Lookup(tree.heap, tree.root, tree.cache[i].key) # None
        /\ tree.cache[i].ref = Lookup(tree.heap, tree.root, tree.cache[i].key)

\* the sum of file_size over the nodes of the tree
RECURSIVE SizeSum(_, _)
SizeSum(h, node) ==
    IF node = None THEN 0
    ELSE h[node].file_size + SizeSum(h, h[node].left) + SizeSum(h, h[node].right)

\* C22: get_statistics reports total_files equal to the number of nodes of the
\* tree and total_size equal to the sum of file_size over them, after any
\* inserts and deletes
C22_Statistics ==
    /\ get_statistics(tree).total_files = NodeCount(tree)
    /\ get_statistics(tree).total_size = SizeSum(tree.heap, tree.root)

\* what holds of the counters: total_size is never below the sum over the
\* nodes, and each call moves the counters by the call alone: insert adds 1 and
\* the size, delete takes 1 off file_count when the tree is not empty afterwards
\* and never touches total_size
StatisticsEffect ==
    /\ [](tree.total_size >= SizeSum(tree.heap, tree.root))
    /\ [][/\ tlast'.op = "insert" =>
                /\ tree'.file_count = tree.file_count + 1
                /\ tree'.total_size > tree.total_size
          /\ tlast'.op = "delete" =>
                /\ tree'.file_count = IF tree'.root # None THEN tree.file_count - 1
                                                           ELSE tree.file_count
                /\ tree'.total_size = tree.total_size
          /\ tlast'.op = "find" =>
                /\ tree'.file_count = tree.file_count
                /\ tree'.total_size = tree.total_size]_vars

\* C29: every find returns what the same find returns from a tree without
\* cache that was given the same calls: None from both, or nodes with the same
\* field values and the same access_count after the call
C29_CacheTransparent ==
    tlast.op = "find" =>
        /\ tlast.ret = nocache.ret
        /\ NodeFields(tree.heap, tlast.ref) = nocache.rec

\* what the two trees do agree on: they hold the same identifiers in the same
\* shape, a find finds in one what it finds in the other, and the node
\* returned carries the identifier asked for
ShadowAgreement ==
    /\ InorderIds(tree) = InorderIds(nocache.t)
    /\ Len(nocache.t.cache) = 0
    /\ tlast.op = "find" =>
          /\ tlast.ret = nocache.ret
          /\ tlast.ret => /\ NodeFields(tree.heap, tlast.ref)[1].file_id = tlast.file_id
                          /\ nocache.rec[1].file_id = tlast.file_id

---------------------------------------------------------------------------
(* Properties of the manager's store *)

\* whether the tree holds a record with this identifier
Holds(t, file_id) == Lookup(t.heap, t.root, file_id) # None

\* the identifiers the index document lists, in its order
IndexIds(index) == [i \in 1..Len(index.files) |-> index.files[i].file_id]

\* the index file as save_index writes it for the tree
Persisted(t, d) == d.index = save_index(t, d).index

\* C16: delete_audio_file(file_id) returns True iff the store held a record with
\* that identifier; then the record is gone from the tree and the cache, a
\* following get_audio_file(file_id) returns None and the index file has been
\* rewritten without it; when the store held no such record it returns False
\* and changes nothing
C16_DeleteAsset ==
    [][mlast'.op = "delete_audio_file" =>
         LET file_id == mlast'.file_id
         IN  /\ mlast'.ret = Holds(tree, file_id)
             /\ Holds(tree, file_id) =>
                   /\ ~Holds(tree', file_id)
                   /\ ~InCache(tree'.cache, file_id)
                   /\ get_audio_file(tree', file_id).r = None
                   /\ Persisted(tree', disk')
             /\ ~Holds(tree, file_id) => tree' = tree /\ disk' = disk]_vars

\* what delete_audio_file does: the record and its file are removed whenever
\* the store held the record, but True is returned and the index file rewritten
\* only when another record is left in the tree; an identifier the store does
\* not hold changes nothing
DeleteAssetEffect ==
    [][mlast'.op = "delete_audio_file" =>
         LET file_id == mlast'.file_id
         IN  /\ mlast'.ret = (Holds(tree, file_id) /\ tree'.root # None)
             /\ mlast'.raised = "none"
             /\ Holds(tree, file_id) =>
                   /\ ~Holds(tree', file_id)
                   /\ ~InCache(tree'.cache, file_id)
                   /\ get_audio_file(tree', file_id).r = None
                   /\ disk'.files[RecordOf(tree, file_id).filename] = Absent
                   /\ IF tree'.root # None THEN Persisted(tree', disk')
                                           ELSE disk'.index = disk.index
             /\ ~Holds(tree, file_id) => tree' = tree /\ disk' = disk]_vars

\* C17: add_audio_file with a source path that does not exist raises
\* AudioFileNotFoundError and leaves the tree, the cache, the statistics
\* (file_count, total_size) and the index file as they were
C17_AddMissingSource ==
    [][(mlast'.op = "add_audio_file" /\ disk.files[mlast'.file_path] = Absent) =>
          /\ mlast'.raised = "AudioFileNotFoundError"
          /\ tree'.heap = tree.heap /\ tree'.root = tree.root
          /\ tree'.cache = tree.cache
          /\ get_statistics(tree') = get_statistics(tree)
          /\ tree' = tree
          /\ disk' = disk]_vars

\* a store holding a record and an index file, after an add_audio_file of a
\* missing file has raised
C17_Witness ==
    /\ mlast.op = "add_audio_file"
    /\ mlast.raised = "AudioFileNotFoundError"
    /\ disk.files[mlast.file_path] = Absent
    /\ NodeCount(tree) = 2
    /\ Len(tree.cache) = 2
    /\ disk.index.kind = "object"
    /\ Len(disk.index.files) = 2

\* the persisted payload of the record the tree holds under file_id
Payload(t, file_id) ==
    LET n == t.heap[Lookup(t.heap, t.root, file_id)]
    IN  [ filename |-> n.filename, file_path |-> n.file_path, file_size |-> n.file_size,
          channels |-> n.channels, access_count |-> n.access_count, tags |-> n.tags ]

\* the tree of a new manager started on the index file save_index writes for t
RoundTrip(t) == Compact(NewFileManager(save_index(t, EmptyDisk).index), None).t

\* C18: save_index followed by load_index into a new manager gives a tree with
\* the same in-order identifiers and, for each of them, the same persisted
\* payload; and the restart of the process gives that tree
C18_IndexRoundTrip ==
    /\ [](LET loaded == RoundTrip(tree)
          IN  /\ InorderIds(loaded) = InorderIds(tree)
              /\ \A i \in 1..Len(InorderIds(tree)) :
                    Payload(loaded, InorderIds(tree)[i]) = Payload(tree, InorderIds(tree)[i]))
    /\ [][(mlast'.op = "restart" /\ Persisted(tree, disk)) =>
             /\ InorderIds(tree') = InorderIds(tree)
             /\ \A i \in 1..Len(InorderIds(tree)) :
                   Payload(tree', InorderIds(tree)[i]) = Payload(tree, InorderIds(tree)[i])]_vars

\* a restart on an index of three records saved after a deletion (the file of a
\* record is gone: it was shared with a deleted record), one of them with an
\* access_count above 1, one with tags and one with the default of channels
C18_Witness ==
    /\ mlast.op = "restart"
    /\ InorderIds(tree) = <<1, 2, 3>>
    /\ tree.file_count = 3
    /\ IndexIds(disk.index) = <<1, 2, 3>>
    /\ \E i \in 1..3 : disk.files[Payload(tree, i).file_path] = Absent
    /\ \E i \in 1..3 : Payload(tree, i).access_count = 2
    /\ \E i \in 1..3 : Payload(tree, i).tags = <<"uploaded">>
    /\ \E i \in 1..3 : Payload(tree, i).channels = 2

\* an entry as save_index writes it: an object with every key and a string as file_id
WellFormed(file_data) ==
    /\ file_data.json = "object"
    /\ file_data.keys = NodeKeys
    /\ file_data.file_id > EmptyString

\* the identifiers of the records in the tree
HeldIds(t) == SeqRange(InorderIds(t))

\* C19: load_index loads every well-formed entry whatever malformed entries
\* come before or after it, does not raise, loads nothing the document does
\* not list, and leaves a file_count equal to the number of distinct
\* identifiers loaded
C19_LoadSkipsMalformed ==
    mlast.op = "restart" =>
        LET files == disk.index.files
        IN  /\ mlast.raised = "none"
            /\ \A i \in 1..Len(files) :
                  WellFormed(files[i]) => Holds(tree, files[i].file_id)
            /\ \A file_id \in HeldIds(tree) :
                  \E i \in 1..Len(files) :
                      /\ files[i].json = "object"
                      /\ Get(files[i], "file_id", EmptyString) = file_id
            /\ tree.file_count = Cardinality(HeldIds(tree))

\* what load_index does: the entries that are objects are inserted in order;
\* the first of them decides, by the type of its file_id, which of the later
\* ones can be compared with the tree and so be inserted; file_count counts the
\* entries inserted, repeated identifiers included
LoadEffect ==
    mlast.op = "restart" =>
        LET files == disk.index.files
            objs  == {i \in 1..Len(files) : files[i].json = "object"}
            id(i) == Get(files[i], "file_id", EmptyString)
            first == CHOOSE i \in objs : \A j \in objs : i <= j
            taken == {i \in objs : IsStr(id(i)) = IsStr(id(first))}
        IN  /\ mlast.raised = "none"
            /\ HeldIds(tree) = {id(i) : i \in taken}
            /\ tree.file_count = Cardinality(taken)

\* the records of the tree, in order, that search_files is to return: the query
\* is empty or a substring of the filename, both in lower case, and no tags are
\* given or one of them is among the record's tags
Matching(t, query, tags) ==
    SelectSeq(InorderTraversal(t.heap, t.root),
              LAMBDA n : /\ query = <<>> \/ Contains(Lower(t.heap[n].filename), Lower(query))
                         /\ tags = <<>> \/ AnyTagIn(tags, t.heap[n].tags))

\* C20: search_files(query, tags, limit) returns the first min(limit, number of
\* matches) of the matching records in ascending order of file_id (none for a
\* limit below 1)
C20_Search ==
    mlast.op = "search_files" =>
        LET matches == Matching(tree, mlast.query, mlast.tags)
        IN  /\ Len(mlast.results) = Max(0, Min(mlast.limit, Len(matches)))
            /\ mlast.results = SubSeq(matches, 1, Len(mlast.results))

\* what search_files does: the first matching records in order, as many as the
\* limit says, but one record also when the limit is 0 or negative, since the
\* limit is tested after a record was appended
SearchEffect ==
    mlast.op = "search_files" =>
        LET matches == Matching(tree, mlast.query, mlast.tags)
        IN  /\ Len(mlast.results) = Min(Max(1, mlast.limit), Len(matches))
            /\ mlast.results = SubSeq(matches, 1, Len(mlast.results))
            /\ \A i \in 1..(Len(mlast.results) - 1) :
                  tree.heap[mlast.results[i]].file_id < tree.heap[mlast.results[i + 1]].file_id

\* a search that finds several matches among records that do not all match
SearchScenario ==
    /\ mlast.op = "search_files"
    /\ mlast.query = <<"a", "B">>
    /\ mlast.tags = <<"x", "uploaded">>
    /\ mlast.limit = 2
    /\ Len(mlast.results) = 2
    /\ NodeCount(tree) = 3
    /\ mlast.results # SubSeq(InorderTraversal(tree.heap, tree.root), 1, 2)


\* the calls that rewrite the index file
Mutations == {"add_audio_file", "delete_audio_file", "update_processing_history"}

\* C23: after every completed add_audio_file, delete_audio_file or
\* update_processing_history the identifiers in the index file are the
\* identifiers in the tree, and a restart right after such a call gives a store
\* that holds the same records
C23_IndexCheckpoint ==
    [][/\ (mlast'.op \in Mutations /\ mlast'.raised = "none")
             => SeqRange(IndexIds(disk'.index)) = HeldIds(tree')
       /\ (mlast'.op = "restart" /\ mlast.op \in Mutations /\ mlast.raised = "none")
             => /\ HeldIds(tree') = HeldIds(tree)
                /\ \A file_id \in HeldIds(tree) :
                      Payload(tree', file_id) = Payload(tree, file_id)]_vars

\* what the calls do to the index file: add_audio_file rewrites it whenever it
\* returns; update_processing_history rewrites it when it found the record;
\* delete_audio_file rewrites it when the tree is not empty afterwards and
\* leaves the file as it was, the deleted record in it, when the last record
\* went; a call that changed no record leaves the file alone
CheckpointEffect ==
    [][/\ (mlast'.op = "add_audio_file" /\ mlast'.raised = "none") => Persisted(tree', disk')
       /\ (mlast'.op = "update_processing_history" /\ mlast'.ref # None)
             => Persisted(tree', disk')
       /\ (mlast'.op = "update_processing_history" /\ mlast'.ref = None)
             => disk' = disk
       /\ (mlast'.op = "delete_audio_file" /\ Holds(tree, mlast'.file_id)) =>
             IF tree'.root # None THEN Persisted(tree', disk')
                                  ELSE disk'.index = disk.index
       /\ (mlast'.op = "delete_audio_file" /\ ~Holds(tree, mlast'.file_id))
             => disk' = disk]_vars

---------------------------------------------------------------------------
(* Properties of the registry and of the locks *)

\* the thread is inside a call
Busy(t) == threads[t].pc # "idle"

\* the locks the thread holds
HoldsManagerLock(t) == manager.lock = t
BufferLocksHeld(t) == {b \in 1..Len(objects) : objects[b].lock = t}

\* while some call is under way, some thread inside a call can take its next step
NoDeadlock == (\E t \in Threads : Busy(t)) => (\E t \in Threads : ENABLED Progress(t))

\* a thread between calls holds no lock
LocksReleased ==
    \A t \in Threads : ~Busy(t) => ~HoldsManagerLock(t) /\ BufferLocksHeld(t) = {}

\* a thread that has its lock and is at the body of write or read is never made to
\* wait: the body's step is enabled whatever the buffer holds
NeverWaits ==
    \A t \in Threads : threads[t].pc \in {"write", "read"} => ENABLED Progress(t)

\* C6: with concurrent callers of the manager's and the buffers' operations no
\* deadlock is reachable, a thread that has returned holds no lock, write and read
\* never wait for space or data, and every call that was started returns.
C6_EveryCallReturns ==
    /\ [](NoDeadlock /\ LocksReleased /\ NeverWaits)
    /\ \A t \in Threads : Busy(t) ~> ~Busy(t)

\* a thread in clear_all_buffers or get_all_buffer_statuses holds the manager's
\* lock and waits for the lock of a buffer; the holder of that lock is at the body
\* of a read of one sample from the empty buffer
C6_Witness ==
    \E t, u \in Threads :
        /\ t # u
        /\ InLoop(t)
        /\ HoldsManagerLock(t)
        /\ objects[LoopBuffer(t)].lock = u
        /\ threads[u].pc = "read"
        /\ threads[u].num_samples = 1
        /\ objects[LoopBuffer(t)].obj.available = 0

\* the step of thread t is the body of op
Returns(t, op) == threads[t].pc = op /\ threads'[t].pc = "idle"

\* the fields of the buffer objects that existed before the step are as they were
ObjectsKept == \A b \in 1..Len(objects) : objects'[b].obj = objects[b].obj

\* C7: create_buffer for a key that has a buffer returns that buffer and leaves the
\* dict and every buffer's size, sample rate, pointers, available count and stored
\* samples as they were, whatever size and sample rate were passed; for a key
\* without a buffer it registers a new one; delete_buffer returns True exactly when
\* the key had a buffer, and the key has none afterwards; get_buffer returns the
\* registered buffer or None; and the buffer registered for a key changes in no
\* other step than these bodies of create_buffer (from None) and delete_buffer (to None).
C7_CreateIdempotent ==
    [][ \A t \in Threads : \A s \in Sessions :
          LET before == get_buffer(manager.buffers, s)
              after  == get_buffer(manager'.buffers, s)
              mine   == threads[t].session_id = s
          IN  /\ (Returns(t, "create_buffer") /\ mine /\ before # None) =>
                    /\ threads'[t].ret = before
                    /\ manager'.buffers = manager.buffers
                    /\ objects' = objects
              /\ (Returns(t, "create_buffer") /\ mine /\ before = None) =>
                    /\ threads'[t].ret = after
                    /\ after = Len(objects) + 1
                    /\ ObjectsKept
              /\ (Returns(t, "delete_buffer") /\ mine) =>
                    /\ threads'[t].ok = (before # None)
                    /\ after = None
                    /\ ObjectsKept
              /\ (Returns(t, "get_buffer") /\ mine) => threads'[t].ret = before
              /\ before # after =>
                    \E u \in Threads :
                        /\ threads[u].session_id = s
                        /\ \/ Returns(u, "create_buffer") /\ before = None
                           \/ Returns(u, "delete_buffer") /\ after = None
      ]_vars

\* create_buffer was called for a key whose buffer holds a sample, with a size and a
\* sample rate that differ from the buffer's, and has returned that buffer
C7_Witness ==
    \E t \in Threads :
        /\ threads[t].op = "create_buffer" /\ ~Busy(t)
        /\ threads[t].ret # None
        /\ threads[t].ret = get_buffer(manager.buffers, threads[t].session_id)
        /\ LET b == objects[threads[t].ret].obj
           IN  /\ b.available > 0
               /\ b.size # OrDefault(threads[t].size, DefaultBufferSize)
               /\ b.sample_rate # OrDefault(threads[t].sample_rate, DefaultSampleRate)

\* C25: no thread holds the manager's lock while it acquires, waits for or
\* holds the lock of a buffer, so a buffer whose lock is held never keeps
\* another thread from entering create_buffer, get_buffer or delete_buffer
C25_RegistryLockScope ==
    \A t \in Threads :
        HoldsManagerLock(t) =>
            /\ BufferLocksHeld(t) = {}
            /\ ~InLoop(t)

\* what the locks do: a thread holds the manager's lock together with the lock
\* of a buffer only inside get_all_buffer_statuses and clear_all_buffers, one
\* buffer at a time, and a thread that takes a buffer's lock from outside the
\* manager holds no manager lock
RegistryLockEffect ==
    \A t \in Threads :
        /\ Cardinality(BufferLocksHeld(t)) <= 1
        /\ (HoldsManagerLock(t) /\ (BufferLocksHeld(t) # {} \/ InLoop(t))) =>
              threads[t].op \in {"get_all_buffer_statuses", "clear_all_buffers"}
        /\ threads[t].pc \in {"write", "read", "clear", "get_status"} => ~HoldsManagerLock(t)

\* a thread inside clear_all_buffers or get_all_buffer_statuses holds the
\* manager's lock and waits for the lock of a buffer that a thread inside a
\* write or read holds, while the manager's lock it holds keeps nobody else
\* from being served
RegistryHeldWhileWaiting ==
    \E t, u \in Threads :
        /\ t # u
        /\ HoldsManagerLock(t) /\ InLoop(t)
        /\ objects[LoopBuffer(t)].lock = u
        /\ threads[u].pc \in {"write", "read"}

\* the buffers whose fields the statement a thread is at reads or assigns
BufferBodies ==
    {"write", "write_ptr", "write_available", "write_total",
     "read", "read_ptr", "read_available", "read_total",
     "clear", "clear_write_ptr", "clear_available",
     "get_status", "available_samples", "is_full", "is_empty", "get_utilization"}

Touches(t) ==
    IF threads[t].pc \in BufferBodies THEN {threads[t].buffer}
    ELSE IF threads[t].pc \in {"get_statistics", "get_statistics_utilization"}
    THEN {manager.buffers[k].ref : k \in 1..Len(manager.buffers)}
    ELSE {}

\* the fields of a buffer between two operations: the write pointer is the read
\* pointer advanced by the unread count
Settled(b) == b.write_ptr = (b.read_ptr + b.available) % b.size

\* C24: every operation of a buffer, the full/empty/utilization queries
\* included, runs while its thread holds the buffer's lock, so two threads are
\* never inside operations of the same buffer and no operation starts on fields
\* that another thread is in the middle of updating
C24_AllUnderLock ==
    \A t \in Threads : \A b \in Touches(t) : objects[b].lock = t

\* what the lock does: the bodies of write, read, clear, get_status and
\* available_samples run with the lock held, at most one thread at a time, and
\* the fields of a buffer whose lock is free are settled
LockedBodies == BufferBodies \ UnlockedOps

LockEffect ==
    /\ \A t \in Threads :
          threads[t].pc \in LockedBodies => objects[threads[t].buffer].lock = t
    /\ \A t, u \in Threads :
          (t # u /\ threads[t].pc \in LockedBodies /\ threads[u].pc \in LockedBodies)
              => threads[t].buffer # threads[u].buffer
    /\ \A b \in 1..Len(objects) : objects[b].lock = Free => Settled(objects[b].obj)

\* read_ptr, write_ptr, available and the samples change only in steps of the
\* thread that holds the buffer's lock
LockedChange ==
    [][\A b \in 1..Len(objects) :
          objects'[b].obj # objects[b].obj =>
              /\ objects[b].lock \in Threads
              /\ threads'[objects[b].lock] # threads[objects[b].lock]]_vars

\* a thread is inside is_full, is_empty or get_utilization, or inside the
\* manager's get_statistics, while another thread is between the assignments of
\* a write, read or clear of the same buffer, whose fields are not settled
QueryMidUpdate ==
    \E t, u \in Threads :
        /\ t # u
        /\ threads[t].pc \in UnlockedOps
        /\ threads[u].pc \in {"write_available", "read_available", "clear_write_ptr"}
        /\ threads[u].buffer = threads[t].buffer
        /\ ~Settled(objects[threads[t].buffer].obj)

StatisticsMidUpdate ==
    \E t, u \in Threads :
        /\ threads[t].pc \in {"get_statistics", "get_statistics_utilization"}
        /\ threads[u].pc \in {"write_available", "read_available"}
        /\ threads[u].buffer \in Touches(t)
        /\ ~Settled(objects[threads[u].buffer].obj)

---------------------------------------------------------------------------
(* Properties of the tree under interleaved callers *)

AllIdle == \A task \in Tasks : tasks[task].pc = "idle"

\* some call was started while another caller was inside a call
Overlapped == \E task \in Tasks : tasks[task].overlapped

\* an identifier whose insert has returned and that no caller has called delete
\* for is not in the tree
RecordLost ==
    \E file_id \in UNION {tasks[task].inserted : task \in Tasks} :
        /\ \A task \in Tasks : file_id \notin tasks[task].deleted
        /\ ~Holds(tree, file_id)

\* the tree is as the same calls leave it when each runs alone
AsAlone ==
    /\ InorderIds(tree) = InorderIds(nocache.t)
    /\ \A file_id \in HeldIds(tree) : Payload(tree, file_id) = Payload(nocache.t, file_id)
    /\ tree.file_count = nocache.t.file_count
    /\ tree.total_size = nocache.t.total_size

\* C26: nothing keeps the callers of the tree apart, and when the steps of two
\* calls of insert or delete interleave the tree can end up corrupted: a record
\* whose insert returned is missing, the count is not the count the calls give,
\* or the order or the balance is broken.  Between calls none of this happens
\* as long as no two calls have overlapped.
C26_CorruptionNeedsOverlap ==
    (AllIdle /\ ~(AsAlone /\ ~RecordLost /\ C8_AvlInvariant /\ C9_InorderAscending))
        => Overlapped

\* two callers have inserted, nobody has called delete, all calls have returned,
\* and the tree lacks an inserted record
C26_Witness ==
    /\ AllIdle
    /\ RecordLost
    /\ \A task \in Tasks : tasks[task].deleted = {}

\* all calls have returned, nobody has called delete, and file_count is smaller
\* than the number of inserts made
CountLost ==
    /\ AllIdle
    /\ \A task \in Tasks : tasks[task].deleted = {}
    /\ tree.file_count < tasks[1].calls + tasks[2].calls

\* all calls have returned and the identifiers are not in ascending order
OrderBroken == AllIdle /\ ~C9_InorderAscending

\* all calls have returned and a node's stored height or balance is wrong
BalanceBroken == AllIdle /\ ~C8_AvlInvariant


===========================================================================
